---------------------------- MODULE Spec2Model ----------------------------
(***************************************************************************)
(* A model of the hybrid Ethash consensus engine of go-altcoinchain:       *)
(*   - the fork-aware difficulty calculator (consensus.go, pos.go),        *)
(*   - single-header verification and the concurrent batch verifier,       *)
(*   - uncle verification,                                                 *)
(*   - block finalization and the two reward streams.                      *)
(*                                                                         *)
(* Each subsystem has its own variables and its own specification; a       *)
(* specification leaves the variables of the other subsystems at their     *)
(* idle values.  big.Int values are unbounded integers in the source; the  *)
(* inputs are chosen so that every intermediate value fits TLC's integers. *)
(***************************************************************************)
EXTENDS Integers, Sequences, FiniteSets, TLC

VARIABLES
    \* ---- difficulty calculator (one call of CalcDifficulty) ----
    config,               \* params.ChainConfig: the fork activation blocks
    ethwStartDifficulty,  \* params.ETHWStartDifficulty (its value is outside the sources)
    dPc,                  \* "idle" before the call, "done" after it
    dTime,                \* argument time
    dParent,              \* argument parent
    dResult,              \* the returned difficulty
    \* ---- the engine and its collaborators ----
    powMode,              \* ethash.config.PowMode: "normal", "fake" or "fullFake"
    fakeFail,             \* ethash.fakeFail: the block number whose seal fails in fake mode
    chain,                \* the chain reader: the set of headers it knows
    unixNow,              \* time.Now().Unix() at the call
    \* ---- single-header verification (one call) ----
    hPc,                  \* "idle" before the call, "done" after it
    hHeader,              \* the header verified
    hUncle,               \* verified as an uncle (verifyHeader called by VerifyUncles)
    hSeal,                \* the seal flag of the call
    hResult,              \* the returned error, "nil" for none
    hBatch,               \* the headers up to the verified one handed to a worker
    \* ---- batch verification (one call of VerifyHeaders) ----
    bPc,                  \* "idle" before the call, "running" while the goroutines
                          \* run, "fake" after the full-fake / empty-batch return
    bHeaders,             \* headers, a sequence (index i of the code is element i+1)
    bSeals,               \* seals
    workers,              \* the number of worker goroutines
    wPc,                  \* per worker: "recv" (blocked on range inputs), "verify"
                          \* (holds an index), "send" (about to send on done), "exit"
    wIdx,                 \* per worker: the index it holds
    inputsClosed,         \* close(inputs) has run
    done,                 \* the buffered channel done
    errors,               \* the slice errors
    abort,                \* the abort channel: "open", "closed" or "sent"
    cPc,                  \* coordinator: "select", "returned" (all emitted), "aborted"
    cIn,                  \* coordinator local in
    cOut,                 \* coordinator local out
    checked,              \* coordinator local checked
    errorsOut,            \* the channel errorsOut (the results channel)
    recvOrder,            \* history: the indexes in the order the coordinator
                          \* received them from done
    \* ---- uncle verification (one call of VerifyUncles) ----
    uPc,                  \* "idle" before the call, "done" after it
    uBlock,               \* the block: its header fields and Uncles, a sequence of headers
    uResult,              \* the returned error
    uTrace,               \* history: what happened to each uncle the loop examined
    uLookups,             \* history: the chain.GetHeader and chain.GetBlock calls made
    \* ---- finalization and the reward streams (one call) ----
    finPc,                \* "idle" before the call, "done" after it
    finCall,              \* the function called
    finHeader,            \* header: Number, Coinbase and Root
    finUncles,            \* uncles: a sequence of headers (Number, Coinbase)
    finParticipants,      \* the participants the hybrid stream ranges over
    stateDB,              \* state: the balance of every address
    finLog,               \* history: the calls of state.AddBalance and the
                          \* assignment of header.Root, in order
    \* ---- the hybrid difficulty (one call of CalcCustomDifficulty) ----
    ccdPc,                \* "idle" before the call, "done" after it
    ccdChain,             \* argument chain: a reader with a configuration, or nil
    ccdFactors,           \* arguments <<posFactor, potFactor, trustFactor>>
    ccdResult,            \* the outcome: a panic, or the returned difficulty
    \* ---- seal verification (one call of verifySeal) ----
    sealPc,               \* "idle" before the call, "done" after it
    sealShared,           \* ethash.shared: the shared engine, or none
    sealHeader,           \* argument header: Number, Difficulty, MixDigest
    sealFulldag,          \* argument fulldag
    sealGenerated,        \* dataset.generated() of the dataset of the block
    sealHash,             \* what hashimoto returns for the header: digest, result
    sealResult,           \* the returned error and the lookups made, in order
    \* ---- the stake registry (PoS) and its callers' amounts ----
    bigInts,              \* the big.Int objects: object -> value
    Validators,           \* pos.Validators: address -> validator record
    posCalls,             \* history: the calls of UpdateValidator, in order
    posViews,             \* history: the values seen before the first call and
                          \* after each call
    \* ---- the transaction registry (PoT) ----
    TransactionRecords,   \* pot.TransactionRecords: address -> record
    TotalTransactions,    \* pot.TotalTransactions
    potCalls,             \* history: the calls of RecordTransaction, in order
    \* ---- the bomb-delay calculators (one call of each on the same arguments) ----
    calcPc,               \* "idle" before the calls, "done" after them
    calcDelay,            \* argument bombDelay
    calcBig,              \* what makeDifficultyCalculator(bombDelay) computed
    calcU256,             \* what MakeDifficultyCalculatorU256(bombDelay) computed
    \* ---- the trust registry (ProofOfTrust) ----
    TrustRecords,         \* trust.TrustRecords: address -> record
    trustCalls,           \* history: the calls of UpdateTrust, in order
    \* ---- the remote-mining API and the remote sealer ----
    remote,               \* ethash.remote: "nil", or "sealer" when there is one
    exitCh,               \* remote.exitCh: "open" or "closed"
    sealerPc,             \* the remote sealer's loop: "stopped" (none), "loop",
                          \* "handling" (a received message) or "exited"
    apiPc,                \* per caller: where its API call stands
    apiCall,              \* per caller: "SubmitWork" or "SubmitHashrate"
    apiReply,             \* per caller: the channel errc / done of its message
    apiResult             \* per caller: the returned boolean, how it was reached

diffVars == <<config, ethwStartDifficulty, dPc, dTime, dParent, dResult>>

engineVars == <<powMode, fakeFail, chain, unixNow>>

hdrVars == <<hPc, hHeader, hUncle, hSeal, hResult, hBatch>>

batchVars == <<bPc, bHeaders, bSeals, workers, wPc, wIdx, inputsClosed, done, errors,
               abort, cPc, cIn, cOut, checked, errorsOut, recvOrder>>

uncleVars == <<uPc, uBlock, uResult, uTrace, uLookups>>

finVars == <<finPc, finCall, finHeader, finUncles, finParticipants, stateDB, finLog>>

customVars == <<ccdPc, ccdChain, ccdFactors, ccdResult>>

sealVars == <<sealPc, sealShared, sealHeader, sealFulldag, sealGenerated, sealHash,
              sealResult>>

posVars == <<bigInts, Validators, posCalls, posViews>>

potVars == <<TransactionRecords, TotalTransactions, potCalls>>

calcVars == <<calcPc, calcDelay, calcBig, calcU256>>

trustVars == <<TrustRecords, trustCalls>>

apiVars == <<remote, exitCh, sealerPc, apiPc, apiCall, apiReply, apiResult>>

lateVars == <<calcVars, trustVars, apiVars>>

extraVars == <<customVars, sealVars, posVars, potVars, lateVars>>

vars == <<diffVars, engineVars, hdrVars, batchVars, uncleVars, finVars, extraVars>>

----------------------------------------------------------------------------
(* Helpers *)

Max(a, b) == IF a >= b THEN a ELSE b

Min(a, b) == IF a <= b THEN a ELSE b

RECURSIVE Pow2(_)
\* big.Int Exp(2, n, nil) for n >= 0
Pow2(n) == IF n <= 0 THEN 1 ELSE 2 * Pow2(n - 1)

\* A nil *big.Int / nil pointer
Nil == -1

----------------------------------------------------------------------------
(* Protocol constants *)

MinimumDifficulty == 131072

DifficultyBoundDivisor == 2048

DurationLimit == 13

expDiffPeriod == 100000

bigMinus99 == -99

\* bomb delays of the Byzantium-style calculators (consensus.go:50-78)
BombDelayEip5133 == 11400000

BombDelayEip4345 == 10700000

BombDelayEip3554 == 9700000

BombDelayEip2384 == 9000000

BombDelayConstantinople == 5000000

BombDelayByzantium == 3000000

\* distance from the EthPoW fork block at which the difficulty is reset to
\* ETHWStartDifficulty (consensus.go:462)
EthPoWResetOffset == 2048

----------------------------------------------------------------------------
(* Chain configuration: fork predicates *)

\* params.isForked: a fork scheduled at block s is active at block head
isForked(s, head) == s # Nil /\ s <= head

IsHomestead(c, num) == isForked(c.homestead, num)

IsByzantium(c, num) == isForked(c.byzantium, num)

IsConstantinople(c, num) == isForked(c.constantinople, num)

IsMuirGlacier(c, num) == isForked(c.muirGlacier, num)

IsLondon(c, num) == isForked(c.london, num)

IsArrowGlacier(c, num) == isForked(c.arrowGlacier, num)

IsGrayGlacier(c, num) == isForked(c.grayGlacier, num)

IsEthPoWFork(c, num) == isForked(c.ethPoW, num)

----------------------------------------------------------------------------
(* Difficulty formulas.  A parent header is a record with the fields the   *)
(* formulas read: Number, Time, Difficulty, and HasUncles, which stands    *)
(* for parent.UncleHash # types.EmptyUncleHash.                            *)

\* mutant: the EthPoW formula without its minimum-difficulty floor
calcDifficultyEthPoW_NoFloor(time, parent) ==
    LET x0 == (time - parent.Time) \div 9
        x1 == IF ~parent.HasUncles THEN 1 - x0 ELSE 2 - x0
        x2 == IF x1 < bigMinus99 THEN bigMinus99 ELSE x1
        y  == parent.Difficulty \div DifficultyBoundDivisor
    IN  parent.Difficulty + y * x2

calcDifficultyEthPoW(time, parent) ==
    LET x0 == (time - parent.Time) \div 9
        x1 == IF ~parent.HasUncles THEN 1 - x0 ELSE 2 - x0
        x2 == IF x1 < bigMinus99 THEN bigMinus99 ELSE x1
        y  == parent.Difficulty \div DifficultyBoundDivisor
        x3 == parent.Difficulty + y * x2
    IN  IF x3 < MinimumDifficulty THEN MinimumDifficulty ELSE x3

\* mutant: the bomb is counted from the parent's number less the whole delay
makeDifficultyCalculator_DelayNotFromParent(bombDelay, time, parent) ==
    LET x0 == (time - parent.Time) \div 9
        x1 == IF ~parent.HasUncles THEN 1 - x0 ELSE 2 - x0
        x2 == IF x1 < bigMinus99 THEN bigMinus99 ELSE x1
        y  == parent.Difficulty \div DifficultyBoundDivisor
        x3 == parent.Difficulty + y * x2
        x4 == IF x3 < MinimumDifficulty THEN MinimumDifficulty ELSE x3
        fakeBlockNumber == IF parent.Number >= bombDelay
                           THEN parent.Number - bombDelay
                           ELSE 0
        periodCount == fakeBlockNumber \div expDiffPeriod
    IN  IF periodCount > 1 THEN x4 + Pow2(periodCount - 2) ELSE x4

\* mutant: the delay is subtracted whether or not the parent has reached it
delayedBlockNumber_Unclamped(bombDelay, parent) == parent.Number - (bombDelay - 1)

\* fakeBlockNumber of makeDifficultyCalculator: parent.Number less
\* bombDelayFromParent once the parent has reached it, and 0 before
delayedBlockNumber(bombDelay, parent) ==
    LET bombDelayFromParent == bombDelay - 1
    IN  IF parent.Number >= bombDelayFromParent
        THEN parent.Number - bombDelayFromParent
        ELSE 0

makeDifficultyCalculator(bombDelay, time, parent) ==
    LET x0 == (time - parent.Time) \div 9
        x1 == IF ~parent.HasUncles THEN 1 - x0 ELSE 2 - x0
        x2 == IF x1 < bigMinus99 THEN bigMinus99 ELSE x1
        y  == parent.Difficulty \div DifficultyBoundDivisor
        x3 == parent.Difficulty + y * x2
        x4 == IF x3 < MinimumDifficulty THEN MinimumDifficulty ELSE x3
        fakeBlockNumber == delayedBlockNumber(bombDelay, parent)
        periodCount == fakeBlockNumber \div expDiffPeriod
    IN  IF periodCount > 1 THEN x4 + Pow2(periodCount - 2) ELSE x4

(* The 256-bit calculators, pos.go.  uint64 values wrap; the 64 bits are *)
(* scaled to 30.                                                         *)

\* the constants of the 256-bit functions (pos.go:73-85)
frontierDurationLimit == 13

minimumDifficulty == 131072

expDiffPeriodUint == 100000

difficultyBoundDivisor == 11

uint64Sub(a, b) == (a - b + 2 ^ 30) % (2 ^ 30)

\* z.SetOne(); z.Lsh(z, n) on a 256-bit word
lshOne(n) == IF n >= 256 THEN 0 ELSE Pow2(n)

\* the bomb of MakeDifficultyCalculatorU256: whether the parent has reached
\* bombDelayFromParent, the delayed block number (none, written 0, when it
\* has not) and the term added
bombU256(bombDelay, parent) ==
    LET bombDelayFromParent == uint64Sub(bombDelay, 1)
        pNum == parent.Number
        fakeBlockNumber == uint64Sub(pNum, bombDelayFromParent)
    IN  IF pNum >= bombDelayFromParent
        THEN [reached |-> TRUE,
              fakeBlockNumber |-> fakeBlockNumber,
              term |-> IF fakeBlockNumber >= 2 * expDiffPeriodUint
                       THEN lshOne(fakeBlockNumber \div expDiffPeriodUint - 2)
                       ELSE 0]
        ELSE [reached |-> FALSE, fakeBlockNumber |-> 0, term |-> 0]

MakeDifficultyCalculatorU256(bombDelay, time, parent) ==
    LET x0 == uint64Sub(time, parent.Time) \div 9
        c == IF parent.HasUncles THEN 2 ELSE 1
        xNeg == x0 >= c
        x1 == IF xNeg THEN uint64Sub(x0, c) ELSE uint64Sub(c, x0)
        x2 == IF x1 > 99 THEN 99 ELSE x1
        pDiff == parent.Difficulty
        y0 == pDiff \div Pow2(difficultyBoundDivisor)
        z == y0 * x2
        y1 == IF xNeg THEN pDiff - z ELSE pDiff + z
        y2 == IF y1 < minimumDifficulty THEN minimumDifficulty ELSE y1
    IN  y2 + bombU256(bombDelay, parent).term

\* CalcDifficultyFrontierU256(time, parent); the sums stay below 2^256 for
\* the inputs drawn
CalcDifficultyFrontierU256(time, parent) ==
    LET pDiff == parent.Difficulty
        adjust == pDiff \div Pow2(difficultyBoundDivisor)
        pDiff1 == IF uint64Sub(time, parent.Time) < frontierDurationLimit
                  THEN pDiff + adjust
                  ELSE pDiff - adjust
        pDiff2 == IF pDiff1 < minimumDifficulty THEN minimumDifficulty ELSE pDiff1
        periodCount == (parent.Number + 1) \div expDiffPeriodUint
    IN  IF periodCount > 1 THEN pDiff2 + lshOne(periodCount - 2) ELSE pDiff2

\* CalcDifficultyHomesteadU256(time, parent)
CalcDifficultyHomesteadU256(time, parent) ==
    LET pDiff == parent.Difficulty
        adjust == pDiff \div Pow2(difficultyBoundDivisor)
        x0 == uint64Sub(time, parent.Time) \div 10
        neg == x0 # 0
        x == IF x0 = 0 THEN 1 ELSE IF x0 >= 100 THEN 99 ELSE x0 - 1
        adjust1 == adjust * x
        pDiff1 == IF neg THEN pDiff - adjust1 ELSE pDiff + adjust1
        pDiff2 == IF pDiff1 < minimumDifficulty THEN minimumDifficulty ELSE pDiff1
        periodCount == (1 + parent.Number) \div expDiffPeriodUint
    IN  IF periodCount > 1 THEN pDiff2 + lshOne(periodCount - 2) ELSE pDiff2

calcDifficultyEip5133(time, parent) ==
    makeDifficultyCalculator(BombDelayEip5133, time, parent)

calcDifficultyEip4345(time, parent) ==
    makeDifficultyCalculator(BombDelayEip4345, time, parent)

calcDifficultyEip3554(time, parent) ==
    makeDifficultyCalculator(BombDelayEip3554, time, parent)

calcDifficultyEip2384(time, parent) ==
    makeDifficultyCalculator(BombDelayEip2384, time, parent)

calcDifficultyConstantinople(time, parent) ==
    makeDifficultyCalculator(BombDelayConstantinople, time, parent)

calcDifficultyByzantium(time, parent) ==
    makeDifficultyCalculator(BombDelayByzantium, time, parent)

\* mutant: the time delta is divided by 9, as in the later formulas
calcDifficultyHomestead_Div9(time, parent) ==
    LET x0 == (time - parent.Time) \div 9
        x1 == 1 - x0
        x2 == IF x1 < bigMinus99 THEN bigMinus99 ELSE x1
        y  == parent.Difficulty \div DifficultyBoundDivisor
        x3 == parent.Difficulty + y * x2
        x4 == IF x3 < MinimumDifficulty THEN MinimumDifficulty ELSE x3
        periodCount == (parent.Number + 1) \div expDiffPeriod
    IN  IF periodCount > 1 THEN x4 + Pow2(periodCount - 2) ELSE x4

calcDifficultyHomestead(time, parent) ==
    LET x0 == (time - parent.Time) \div 10
        x1 == 1 - x0
        x2 == IF x1 < bigMinus99 THEN bigMinus99 ELSE x1
        y  == parent.Difficulty \div DifficultyBoundDivisor
        x3 == parent.Difficulty + y * x2
        x4 == IF x3 < MinimumDifficulty THEN MinimumDifficulty ELSE x3
        periodCount == (parent.Number + 1) \div expDiffPeriod
    IN  IF periodCount > 1 THEN x4 + Pow2(periodCount - 2) ELSE x4

\* mutant: a time delta equal to the duration limit still raises the difficulty
calcDifficultyFrontier_LimitIncluded(time, parent) ==
    LET adjust == parent.Difficulty \div DifficultyBoundDivisor
        diff0 == IF time - parent.Time <= DurationLimit
                 THEN parent.Difficulty + adjust
                 ELSE parent.Difficulty - adjust
        diff1 == IF diff0 < MinimumDifficulty THEN MinimumDifficulty ELSE diff0
        periodCount == (parent.Number + 1) \div expDiffPeriod
    IN  IF periodCount > 1
        THEN Max(diff1 + Pow2(periodCount - 2), MinimumDifficulty)
        ELSE diff1

calcDifficultyFrontier(time, parent) ==
    LET adjust == parent.Difficulty \div DifficultyBoundDivisor
        diff0 == IF time - parent.Time < DurationLimit
                 THEN parent.Difficulty + adjust
                 ELSE parent.Difficulty - adjust
        diff1 == IF diff0 < MinimumDifficulty THEN MinimumDifficulty ELSE diff0
        periodCount == (parent.Number + 1) \div expDiffPeriod
    IN  IF periodCount > 1
        THEN Max(diff1 + Pow2(periodCount - 2), MinimumDifficulty)
        ELSE diff1

\* mutant: the Homestead case stands before the Byzantium-style cases
CalcDifficulty_HomesteadFirst(c, time, parent) ==
    LET next == parent.Number + 1
    IN  IF IsEthPoWFork(c, next) THEN
            IF c.ethPoW # Nil /\ c.ethPoW + EthPoWResetOffset = next
            THEN ethwStartDifficulty
            ELSE IF c.ethPoW # Nil /\ c.ethPoW = next
            THEN 1
            ELSE calcDifficultyEthPoW(time, parent)
        ELSE IF IsHomestead(c, next) THEN calcDifficultyHomestead(time, parent)
        ELSE IF IsGrayGlacier(c, next) THEN calcDifficultyEip5133(time, parent)
        ELSE IF IsArrowGlacier(c, next) THEN calcDifficultyEip4345(time, parent)
        ELSE IF IsLondon(c, next) THEN calcDifficultyEip3554(time, parent)
        ELSE IF IsMuirGlacier(c, next) THEN calcDifficultyEip2384(time, parent)
        ELSE IF IsConstantinople(c, next) THEN calcDifficultyConstantinople(time, parent)
        ELSE IF IsByzantium(c, next) THEN calcDifficultyByzantium(time, parent)
        ELSE calcDifficultyFrontier(time, parent)

\* The epoch dispatch.  The value of params.ETHWStartDifficulty is read from
\* the variable ethwStartDifficulty.
CalcDifficulty(c, time, parent) ==
    LET next == parent.Number + 1
    IN  IF IsEthPoWFork(c, next) THEN
            IF c.ethPoW # Nil /\ c.ethPoW + EthPoWResetOffset = next
            THEN ethwStartDifficulty
            ELSE IF c.ethPoW # Nil /\ c.ethPoW = next
            THEN 1
            ELSE calcDifficultyEthPoW(time, parent)
        ELSE IF IsGrayGlacier(c, next) THEN calcDifficultyEip5133(time, parent)
        ELSE IF IsArrowGlacier(c, next) THEN calcDifficultyEip4345(time, parent)
        ELSE IF IsLondon(c, next) THEN calcDifficultyEip3554(time, parent)
        ELSE IF IsMuirGlacier(c, next) THEN calcDifficultyEip2384(time, parent)
        ELSE IF IsConstantinople(c, next) THEN calcDifficultyConstantinople(time, parent)
        ELSE IF IsByzantium(c, next) THEN calcDifficultyByzantium(time, parent)
        ELSE IF IsHomestead(c, next) THEN calcDifficultyHomestead(time, parent)
        ELSE calcDifficultyFrontier(time, parent)


(* The hybrid difficulty, pos.go *)

stakeWeight == 50

transactionWeight == 30

trustWeight == 20

powWeight == 100

totalWeight == 200

\* new(big.Int).Mul(x, w); .Mul(_, f); .Div(_, d) on non-negative operands:
\* floor(x * m / d) for m = w * f, split at d to keep the product small
mulDiv(x, m, d) == (x \div d) * m + ((x % d) * m) \div d

\* mutant: the PoW part enters with its weight, as the other parts do
CalcCustomDifficulty_PowWeighted(chainReader, time, parent, posFactor, potFactor, trustFactor) ==
    IF chainReader.nil
    THEN [panic |-> TRUE, value |-> 0]
    ELSE
    LET powDifficulty == CalcDifficulty(chainReader.Config, time, parent)
        posDifficulty == mulDiv(powDifficulty, stakeWeight * posFactor, totalWeight)
        potDifficulty == mulDiv(powDifficulty, transactionWeight * potFactor, totalWeight)
        trustDifficulty == mulDiv(powDifficulty, trustWeight * trustFactor, totalWeight)
        finalDifficulty == mulDiv(powDifficulty, powWeight, totalWeight)
                              + posDifficulty + potDifficulty + trustDifficulty
    IN  [panic |-> FALSE,
         value |-> IF finalDifficulty < MinimumDifficulty
                   THEN MinimumDifficulty ELSE finalDifficulty]

\* mutant: the three products are summed and divided once
CalcCustomDifficulty_DividedOnce(chainReader, time, parent, posFactor, potFactor, trustFactor) ==
    IF chainReader.nil
    THEN [panic |-> TRUE, value |-> 0]
    ELSE
    LET powDifficulty == CalcDifficulty(chainReader.Config, time, parent)
        finalDifficulty ==
            powDifficulty
              + mulDiv(powDifficulty,
                       stakeWeight * posFactor + transactionWeight * potFactor
                          + trustWeight * trustFactor,
                       totalWeight)
    IN  [panic |-> FALSE,
         value |-> IF finalDifficulty < MinimumDifficulty
                   THEN MinimumDifficulty ELSE finalDifficulty]

\* CalcCustomDifficulty.  chain.Config() on a nil chain reader is a nil
\* dereference: the call panics.
CalcCustomDifficulty(chainReader, time, parent, posFactor, potFactor, trustFactor) ==
    IF chainReader.nil
    THEN [panic |-> TRUE, value |-> 0]
    ELSE
    LET powDifficulty == CalcDifficulty(chainReader.Config, time, parent)
        posDifficulty == mulDiv(powDifficulty, stakeWeight * posFactor, totalWeight)
        potDifficulty == mulDiv(powDifficulty, transactionWeight * potFactor, totalWeight)
        trustDifficulty == mulDiv(powDifficulty, trustWeight * trustFactor, totalWeight)
        finalDifficulty == powDifficulty + posDifficulty + potDifficulty + trustDifficulty
    IN  [panic |-> FALSE,
         value |-> IF finalDifficulty < MinimumDifficulty
                   THEN MinimumDifficulty ELSE finalDifficulty]

----------------------------------------------------------------------------
(* Inputs of the difficulty calculator *)

\* small parent numbers 0..MaxSmallNumber cover the staged fork blocks
MaxSmallNumber == 15

\* the number of time deltas tried, taken from TimeDeltaList
MaxTimeDeltas == 7

Cfg(h, b, c, m, l, a, g, e) ==
    [homestead |-> h, byzantium |-> b, constantinople |-> c, muirGlacier |-> m,
     london |-> l, arrowGlacier |-> a, grayGlacier |-> g, ethPoW |-> e]

\* the EthPoW fork block of the configurations that schedule it
EthPoWForkBlock == 3

ConfigSet ==
    { Cfg(Nil, Nil, Nil, Nil, Nil, Nil, Nil, Nil),
      Cfg(0, Nil, Nil, Nil, Nil, Nil, Nil, Nil),
      Cfg(0, 0, Nil, Nil, Nil, Nil, Nil, Nil),
      Cfg(0, 0, 0, Nil, Nil, Nil, Nil, Nil),
      Cfg(0, 0, 0, 0, Nil, Nil, Nil, Nil),
      Cfg(0, 0, 0, 0, 0, Nil, Nil, Nil),
      Cfg(0, 0, 0, 0, 0, 0, Nil, Nil),
      Cfg(0, 0, 0, 0, 0, 0, 0, Nil),
      Cfg(2, 4, 6, 8, 10, 12, 14, Nil),
      Cfg(0, 0, 0, 0, 0, 0, 0, EthPoWForkBlock),
      Cfg(Nil, Nil, Nil, Nil, Nil, Nil, Nil, EthPoWForkBlock) }

\* parent numbers around the bomb thresholds of every formula, and around the
\* EthPoW reset block
LargeParentNumbers ==
    { EthPoWForkBlock + EthPoWResetOffset - 2, EthPoWForkBlock + EthPoWResetOffset - 1,
      199998, 199999, 299999, 1099999,
      BombDelayByzantium - 2, BombDelayByzantium + 199998, BombDelayByzantium + 199999,
      BombDelayConstantinople + 199999, BombDelayEip2384 + 299999,
      BombDelayEip3554 + 199999, BombDelayEip4345 + 199999,
      BombDelayEip5133 + 199998, BombDelayEip5133 + 199999 }

ParentNumbers == (0 .. MaxSmallNumber) \cup LargeParentNumbers

ParentDifficulties == {1000, MinimumDifficulty, 200000, 4000000}

ParentTime == 1000

TimeDeltaList == <<1000, 13, 12, 1, 9, 20, 0, 5, 100>>

TimeDeltas == { TimeDeltaList[i] : i \in 1 .. Min(MaxTimeDeltas, Len(TimeDeltaList)) }

AllParentHeaders ==
    [Number : ParentNumbers, Time : {ParentTime},
     Difficulty : ParentDifficulties, HasUncles : BOOLEAN]

\* the largest number of bomb periods an input may have elapsed: the bomb
\* term 2^(periods-2) has to fit TLC's integers
MaxBombPeriods == 12

\* the bomb delay in force at block num under configuration c, used to keep
\* the inputs within MaxBombPeriods
InputBombDelay(c, num) ==
    IF isForked(c.grayGlacier, num) THEN BombDelayEip5133
    ELSE IF isForked(c.arrowGlacier, num) THEN BombDelayEip4345
    ELSE IF isForked(c.london, num) THEN BombDelayEip3554
    ELSE IF isForked(c.muirGlacier, num) THEN BombDelayEip2384
    ELSE IF isForked(c.constantinople, num) THEN BombDelayConstantinople
    ELSE IF isForked(c.byzantium, num) THEN BombDelayByzantium
    ELSE 0

ParentHeaders(c) ==
    { p \in AllParentHeaders :
         \/ isForked(c.ethPoW, p.Number + 1)
         \/ (p.Number + 1 - InputBombDelay(c, p.Number + 1)) \div expDiffPeriod
               <= MaxBombPeriods }

\* candidate values of params.ETHWStartDifficulty
EthwStartCandidates == {MinimumDifficulty, 33554432}

NoParent == [Number |-> 0, Time |-> 0, Difficulty |-> 0, HasUncles |-> FALSE]

----------------------------------------------------------------------------
(* Idle values of the subsystems a specification does not exercise *)

\* the absent header (a nil *types.Header)
NoHeader == [Hash |-> Nil]

EngineIdle ==
    /\ powMode = "normal"
    /\ fakeFail = 0
    /\ chain = {}
    /\ unixNow = 0

HdrIdle ==
    /\ hPc = "idle"
    /\ hHeader = NoHeader
    /\ hUncle = FALSE
    /\ hSeal = FALSE
    /\ hResult = "nil"
    /\ hBatch = <<>>

BatchIdle ==
    /\ bPc = "idle"
    /\ bHeaders = <<>>
    /\ bSeals = <<>>
    /\ workers = 0
    /\ wPc = <<>>
    /\ wIdx = <<>>
    /\ inputsClosed = FALSE
    /\ done = <<>>
    /\ errors = <<>>
    /\ abort = "open"
    /\ cPc = "select"
    /\ cIn = 0
    /\ cOut = 0
    /\ checked = <<>>
    /\ errorsOut = <<>>
    /\ recvOrder = <<>>

UncleIdle ==
    /\ uPc = "idle"
    /\ uBlock = NoHeader
    /\ uResult = "nil"
    /\ uTrace = <<>>
    /\ uLookups = <<>>

DiffIdle ==
    /\ dPc = "idle"
    /\ dTime = 0
    /\ dParent = NoParent
    /\ dResult = 0

FinIdle ==
    /\ finPc = "idle"
    /\ finCall = "none"
    /\ finHeader = NoHeader
    /\ finUncles = <<>>
    /\ finParticipants = <<>>
    /\ stateDB = <<>>
    /\ finLog = <<>>

\* a nil consensus.ChainHeaderReader
NilReader == [nil |-> TRUE]

CustomIdle ==
    /\ ccdPc = "idle"
    /\ ccdChain = NilReader
    /\ ccdFactors = <<0, 0, 0>>
    /\ ccdResult = [panic |-> FALSE, value |-> 0]

\* no shared engine (ethash.shared == nil)
NoEngine == [nil |-> TRUE]

SealIdle ==
    /\ sealPc = "idle"
    /\ sealShared = NoEngine
    /\ sealHeader = NoHeader
    /\ sealFulldag = FALSE
    /\ sealGenerated = FALSE
    /\ sealHash = [digest |-> 0, result |-> 0]
    /\ sealResult = [err |-> "nil", trace |-> <<>>]

PosIdle ==
    /\ bigInts = <<>>
    /\ Validators = <<>>
    /\ posCalls = <<>>
    /\ posViews = <<>>

PotIdle ==
    /\ TransactionRecords = <<>>
    /\ TotalTransactions = 0
    /\ potCalls = <<>>

CalcIdle ==
    /\ calcPc = "idle"
    /\ calcDelay = 0
    /\ calcBig = <<>>
    /\ calcU256 = <<>>

TrustIdle ==
    /\ TrustRecords = <<>>
    /\ trustCalls = <<>>

ApiIdle ==
    /\ remote = "nil"
    /\ exitCh = "open"
    /\ sealerPc = "stopped"
    /\ apiPc = <<>>
    /\ apiCall = <<>>
    /\ apiReply = <<>>
    /\ apiResult = <<>>

LateIdle == CalcIdle /\ TrustIdle /\ ApiIdle

ExtraIdle == CustomIdle /\ SealIdle /\ PosIdle /\ PotIdle /\ LateIdle

\* what each specification leaves idle and unchanged
DiffOthersIdle == HdrIdle /\ BatchIdle /\ UncleIdle /\ FinIdle /\ ExtraIdle

DiffOthers == <<hdrVars, batchVars, uncleVars, finVars, extraVars>>

HdrOthersIdle == DiffIdle /\ BatchIdle /\ UncleIdle /\ FinIdle /\ ExtraIdle

HdrOthers == <<diffVars, batchVars, uncleVars, finVars, extraVars>>

BatchOthersIdle == DiffIdle /\ HdrIdle /\ UncleIdle /\ FinIdle /\ ExtraIdle

BatchOthers == <<diffVars, hdrVars, uncleVars, finVars, extraVars>>

UncleOthersIdle == DiffIdle /\ HdrIdle /\ BatchIdle /\ FinIdle /\ ExtraIdle

UncleOthers == <<diffVars, hdrVars, batchVars, finVars, extraVars>>

FinOthersIdle == DiffIdle /\ EngineIdle /\ HdrIdle /\ BatchIdle /\ UncleIdle /\ ExtraIdle

FinOthers == <<diffVars, engineVars, hdrVars, batchVars, uncleVars, extraVars>>

----------------------------------------------------------------------------
(* Specification SpecDiff: one call of CalcDifficulty *)

InitDiff ==
    /\ config \in ConfigSet
    /\ ethwStartDifficulty \in EthwStartCandidates
    /\ DiffIdle
    /\ EngineIdle
    /\ DiffOthersIdle

\* Ethash.CalcDifficulty / CalcDifficulty called with a time and a parent
CallCalcDifficulty ==
    /\ dPc = "idle"
    /\ \E t \in TimeDeltas, p \in ParentHeaders(config) :
          /\ dTime' = p.Time + t
          /\ dParent' = p
          /\ dResult' = CalcDifficulty(config, p.Time + t, p)
    /\ dPc' = "done"
    /\ UNCHANGED <<config, ethwStartDifficulty, engineVars, DiffOthers>>

NextDiff == CallCalcDifficulty

SpecDiff == InitDiff /\ [][NextDiff]_vars

\* the block whose difficulty the call computes
dNext == dParent.Number + 1

\* the call took the EthPoW branch at the fork block itself
AtEthPoWForkBlock == IsEthPoWFork(config, dNext) /\ config.ethPoW = dNext

\* the call took the EthPoW branch at the reset block, fork block + 2048
AtEthPoWResetBlock ==
    IsEthPoWFork(config, dNext) /\ config.ethPoW + EthPoWResetOffset = dNext

\* C2 (original statement): whatever branch of the epoch dispatch is taken,
\* the value returned by CalcDifficulty is at least the minimum difficulty.
C2_NeverBelowMinimum ==
    dPc = "done" => dResult >= MinimumDifficulty

\* C2 (amended): the value returned by CalcDifficulty is at least the minimum
\* difficulty in every branch of the dispatch except the two resets of the
\* EthPoW case: at the fork block itself it is 1, and at fork block + 2048 it
\* is the constant ETHWStartDifficulty.
C2_NeverBelowMinimumExceptResets ==
    dPc = "done" =>
       IF AtEthPoWResetBlock THEN dResult = ethwStartDifficulty
       ELSE IF AtEthPoWForkBlock THEN dResult = 1
       ELSE dResult >= MinimumDifficulty

\* C2 witness: the EthPoW formula was applied away from the reset blocks and
\* its floor decided the result.
C2_Witness ==
    /\ dPc = "done"
    /\ IsEthPoWFork(config, dNext)
    /\ ~AtEthPoWForkBlock /\ ~AtEthPoWResetBlock
    /\ dParent.Difficulty < MinimumDifficulty
    /\ dResult = MinimumDifficulty

----------------------------------------------------------------------------
(* Header verification.  A header is a record with the fields verification *)
(* reads:                                                                  *)
(*   Hash, ParentHash   abstract hashes (header.Hash() is collision free:  *)
(*                      equal hashes mean equal headers)                   *)
(*   Number, Time, Difficulty, GasLimit, GasUsed                           *)
(*   BaseFee            Nil when absent                                    *)
(*   ExtraLen           len(header.Extra)                                  *)
(*   HasUncles          UncleHash # types.EmptyUncleHash                   *)
(* and the outcomes of the checks computed outside these sources:          *)
(*   DigestOK, PowOK    hashimoto: the digest equals header.MixDigest, the *)
(*                      result is at most 2^256 / difficulty               *)
(*   ForkRuleOK         misc.VerifyGaslimit before London,                 *)
(*                      misc.VerifyEip1559Header from London on            *)
(*   DAOOK, ForkHashOK  misc.VerifyDAOHeaderExtraData, misc.VerifyForkHashes *)

allowedFutureBlockTimeSeconds == 15

\* params.MaximumExtraDataSize
MaximumExtraDataSize == 32

\* params.MaxGasLimit (2^63 - 1 in the protocol parameters; gas values are
\* scaled down here)
MaxGasLimit == 1000000

\* the errors
ErrNil == "nil"

ErrUnknownAncestor == "consensus.ErrUnknownAncestor"

ErrExtraTooLong == "extra-data too long"

ErrFutureBlock == "consensus.ErrFutureBlock"

errOlderBlockTime == "timestamp older than parent"

ErrInvalidDifficultyValue == "invalid difficulty"

ErrInvalidGasLimit == "invalid gasLimit"

ErrInvalidGasUsed == "invalid gasUsed"

ErrBaseFeeBeforeFork == "invalid baseFee before fork"

ErrVerifyGaslimit == "misc.VerifyGaslimit"

ErrVerifyEip1559Header == "misc.VerifyEip1559Header"

ErrInvalidNumber == "consensus.ErrInvalidNumber"

errInvalidDifficulty == "non-positive difficulty"

errInvalidMixDigest == "invalid mix digest"

errInvalidPoW == "invalid proof-of-work"

ErrDAOExtraData == "misc.VerifyDAOHeaderExtraData"

ErrForkHash == "misc.VerifyForkHashes"

\* chain.GetHeader(hash, number): the header the chain knows under that hash
\* (the lookup is answered by hash), NoHeader when it knows none
GetHeader(ch, hash, number) ==
    IF \E h \in ch : h.Hash = hash
    THEN CHOOSE h \in ch : h.Hash = hash
    ELSE NoHeader

verifySeal(mode, ff, header) ==
    IF mode = "fake" \/ mode = "fullFake"
    THEN (IF ff = header.Number THEN errInvalidPoW ELSE ErrNil)
    ELSE IF header.Difficulty <= 0 THEN errInvalidDifficulty
    ELSE IF ~header.DigestOK THEN errInvalidMixDigest
    ELSE IF ~header.PowOK THEN errInvalidPoW
    ELSE ErrNil

\* mutant: the gas-used check made before the difficulty check
verifyHeader_GasUsedFirst(c, mode, ff, header, parent, uncle, seal, now) ==
    IF header.ExtraLen > MaximumExtraDataSize THEN ErrExtraTooLong
    ELSE IF ~uncle /\ header.Time > now + allowedFutureBlockTimeSeconds
    THEN ErrFutureBlock
    ELSE IF header.Time <= parent.Time THEN errOlderBlockTime
    ELSE IF header.GasUsed > header.GasLimit THEN ErrInvalidGasUsed
    ELSE IF CalcDifficulty(c, header.Time, parent) # header.Difficulty
    THEN ErrInvalidDifficultyValue
    ELSE IF header.GasLimit > MaxGasLimit THEN ErrInvalidGasLimit
    ELSE IF ~IsLondon(c, header.Number) /\ header.BaseFee # Nil
    THEN ErrBaseFeeBeforeFork
    ELSE IF ~IsLondon(c, header.Number) /\ ~header.ForkRuleOK
    THEN ErrVerifyGaslimit
    ELSE IF IsLondon(c, header.Number) /\ ~header.ForkRuleOK
    THEN ErrVerifyEip1559Header
    ELSE IF header.Number - parent.Number # 1 THEN ErrInvalidNumber
    ELSE IF seal /\ verifySeal(mode, ff, header) # ErrNil
    THEN verifySeal(mode, ff, header)
    ELSE IF ~header.DAOOK THEN ErrDAOExtraData
    ELSE IF ~header.ForkHashOK THEN ErrForkHash
    ELSE ErrNil

\* mutant: the number of the header is not compared with the parent's
verifyHeader_NumberUnchecked(c, mode, ff, header, parent, uncle, seal, now) ==
    IF header.ExtraLen > MaximumExtraDataSize THEN ErrExtraTooLong
    ELSE IF ~uncle /\ header.Time > now + allowedFutureBlockTimeSeconds
    THEN ErrFutureBlock
    ELSE IF header.Time <= parent.Time THEN errOlderBlockTime
    ELSE IF CalcDifficulty(c, header.Time, parent) # header.Difficulty
    THEN ErrInvalidDifficultyValue
    ELSE IF header.GasLimit > MaxGasLimit THEN ErrInvalidGasLimit
    ELSE IF header.GasUsed > header.GasLimit THEN ErrInvalidGasUsed
    ELSE IF ~IsLondon(c, header.Number) /\ header.BaseFee # Nil
    THEN ErrBaseFeeBeforeFork
    ELSE IF ~IsLondon(c, header.Number) /\ ~header.ForkRuleOK
    THEN ErrVerifyGaslimit
    ELSE IF IsLondon(c, header.Number) /\ ~header.ForkRuleOK
    THEN ErrVerifyEip1559Header
    ELSE IF seal /\ verifySeal(mode, ff, header) # ErrNil
    THEN verifySeal(mode, ff, header)
    ELSE IF ~header.DAOOK THEN ErrDAOExtraData
    ELSE IF ~header.ForkHashOK THEN ErrForkHash
    ELSE ErrNil

\* Ethash.verifyHeader(chain, header, parent, uncle, seal, unixNow)
verifyHeader(c, mode, ff, header, parent, uncle, seal, now) ==
    IF header.ExtraLen > MaximumExtraDataSize THEN ErrExtraTooLong
    ELSE IF ~uncle /\ header.Time > now + allowedFutureBlockTimeSeconds
    THEN ErrFutureBlock
    ELSE IF header.Time <= parent.Time THEN errOlderBlockTime
    ELSE IF CalcDifficulty(c, header.Time, parent) # header.Difficulty
    THEN ErrInvalidDifficultyValue
    ELSE IF header.GasLimit > MaxGasLimit THEN ErrInvalidGasLimit
    ELSE IF header.GasUsed > header.GasLimit THEN ErrInvalidGasUsed
    ELSE IF ~IsLondon(c, header.Number) /\ header.BaseFee # Nil
    THEN ErrBaseFeeBeforeFork
    ELSE IF ~IsLondon(c, header.Number) /\ ~header.ForkRuleOK
    THEN ErrVerifyGaslimit
    ELSE IF IsLondon(c, header.Number) /\ ~header.ForkRuleOK
    THEN ErrVerifyEip1559Header
    ELSE IF header.Number - parent.Number # 1 THEN ErrInvalidNumber
    ELSE IF seal /\ verifySeal(mode, ff, header) # ErrNil
    THEN verifySeal(mode, ff, header)
    ELSE IF ~header.DAOOK THEN ErrDAOExtraData
    ELSE IF ~header.ForkHashOK THEN ErrForkHash
    ELSE ErrNil

\* Ethash.VerifyHeader(chain, header, seal)
VerifyHeader(c, mode, ff, ch, header, seal, now) ==
    IF mode = "fullFake" THEN ErrNil
    ELSE IF GetHeader(ch, header.Hash, header.Number) # NoHeader THEN ErrNil
    ELSE LET parent == GetHeader(ch, header.ParentHash, header.Number - 1)
         IN  IF parent = NoHeader THEN ErrUnknownAncestor
             ELSE verifyHeader(c, mode, ff, header, parent, FALSE, seal, now)

\* In verifyHeaderWorker the code's index i (from 0) addresses element i+1
\* of the sequences.

\* mutant: the parent is taken only when the previous header was accepted
verifyHeaderWorker_ParentAccepted(c, mode, ff, ch, headers, seals, index, now) ==
    LET parent ==
          IF index = 0
          THEN GetHeader(ch, headers[1].ParentHash, headers[1].Number - 1)
          ELSE IF headers[index].Hash = headers[index + 1].ParentHash
                  /\ errors[index] = ErrNil
               THEN headers[index]
               ELSE NoHeader
    IN  IF parent = NoHeader THEN ErrUnknownAncestor
        ELSE verifyHeader(c, mode, ff, headers[index + 1], parent, FALSE,
                          seals[index + 1], now)

\* Ethash.verifyHeaderWorker(chain, headers, seals, index, unixNow)
verifyHeaderWorker(c, mode, ff, ch, headers, seals, index, now) ==
    LET parent ==
          IF index = 0
          THEN GetHeader(ch, headers[1].ParentHash, headers[1].Number - 1)
          ELSE IF headers[index].Hash = headers[index + 1].ParentHash
               THEN headers[index]
               ELSE NoHeader
    IN  IF parent = NoHeader THEN ErrUnknownAncestor
        ELSE verifyHeader(c, mode, ff, headers[index + 1], parent, FALSE,
                          seals[index + 1], now)

----------------------------------------------------------------------------
(* Inputs of header verification: a header that passes every check against *)
(* its parent, damaged by a set of defects.                                *)

\* the largest number of defects a generated header carries at once
MaxDefects == 2

Defects ==
    {"noParent", "extra", "future", "older", "difficulty", "gasLimit", "gasUsed",
     "baseFee", "forkRule", "number", "digest", "pow", "dao", "forkHash"}

DefectSets == { D \in SUBSET Defects : Cardinality(D) <= MaxDefects }

NowChoices == {2000}

\* the parent of the generated header; it lies in the future of the wall
\* clock when the header is to be both too far ahead and not after its parent
MakeParent(c, D, now) ==
    [Hash |-> 1, ParentHash |-> 0, Number |-> 5,
     Time |-> IF "future" \in D /\ "older" \in D THEN now + 100 ELSE 1000,
     Difficulty |-> 200000, GasLimit |-> 5000, GasUsed |-> 0,
     BaseFee |-> IF IsLondon(c, 5) THEN 7 ELSE Nil,
     ExtraLen |-> 0, HasUncles |-> FALSE,
     DigestOK |-> TRUE, PowOK |-> TRUE, ForkRuleOK |-> TRUE,
     DAOOK |-> TRUE, ForkHashOK |-> TRUE]

MakeHeader(c, D, now) ==
    LET parent == MakeParent(c, D, now)
        time == IF "older" \in D
                THEN (IF "future" \in D THEN now + 50 ELSE parent.Time)
                ELSE IF "future" \in D THEN now + allowedFutureBlockTimeSeconds + 1
                ELSE parent.Time + 10
        gasLimit == IF "gasLimit" \in D THEN MaxGasLimit + 1 ELSE 5000
    IN  [Hash |-> 2, ParentHash |-> 1,
         Number |-> IF "number" \in D THEN 7 ELSE 6,
         Time |-> time,
         Difficulty |-> CalcDifficulty(c, time, parent)
                          + (IF "difficulty" \in D THEN 1 ELSE 0),
         GasLimit |-> gasLimit,
         GasUsed |-> IF "gasUsed" \in D THEN gasLimit + 1 ELSE 21,
         BaseFee |-> IF IsLondon(c, 6) THEN 7
                     ELSE IF "baseFee" \in D THEN 7 ELSE Nil,
         ExtraLen |-> IF "extra" \in D THEN MaximumExtraDataSize + 1 ELSE 0,
         HasUncles |-> FALSE,
         DigestOK |-> "digest" \notin D, PowOK |-> "pow" \notin D,
         ForkRuleOK |-> "forkRule" \notin D,
         DAOOK |-> "dao" \notin D, ForkHashOK |-> "forkHash" \notin D]

HeaderConfigs ==
    { Cfg(Nil, Nil, Nil, Nil, Nil, Nil, Nil, Nil),
      Cfg(0, 0, 0, 0, 0, Nil, Nil, Nil) }

----------------------------------------------------------------------------
(* Specification SpecHeader: one verification of a single header *)

InitHeader ==
    /\ config \in HeaderConfigs
    /\ ethwStartDifficulty = MinimumDifficulty
    /\ powMode \in {"normal", "fake", "fullFake"}
    /\ fakeFail \in {0, 6}
    /\ chain = {}
    /\ unixNow \in NowChoices
    /\ HdrIdle
    /\ HdrOthersIdle

\* Ethash.VerifyHeader called on a header; the chain knows its parent unless
\* the parent is missing, and may know the header already
CallVerifyHeader ==
    /\ hPc = "idle"
    /\ \E D \in DefectSets, known \in BOOLEAN, seal \in BOOLEAN :
          LET header == MakeHeader(config, D, unixNow)
              ch == (IF "noParent" \in D THEN {} ELSE {MakeParent(config, D, unixNow)})
                       \cup (IF known THEN {header} ELSE {})
          IN  /\ chain' = ch
              /\ hHeader' = header
              /\ hSeal' = seal
              /\ hResult' = VerifyHeader(config, powMode, fakeFail, ch, header, seal, unixNow)
    /\ hUncle' = FALSE
    /\ hBatch' = <<>>
    /\ hPc' = "done"
    /\ UNCHANGED <<powMode, fakeFail, unixNow, HdrOthers>>

\* Ethash.verifyHeader called by VerifyUncles on an uncle whose parent is a
\* known ancestor: uncle = true, seal = true (consensus.go:281)
CallVerifyHeaderAsUncle ==
    /\ hPc = "idle"
    /\ \E D \in DefectSets :
          /\ "noParent" \notin D
          /\ LET header == MakeHeader(config, D, unixNow)
                 parent == MakeParent(config, D, unixNow)
             IN  /\ chain' = {parent}
                 /\ hHeader' = header
                 /\ hResult' = verifyHeader(config, powMode, fakeFail, header, parent,
                                            TRUE, TRUE, unixNow)
    /\ hSeal' = TRUE
    /\ hUncle' = TRUE
    /\ hBatch' = <<>>
    /\ hPc' = "done"
    /\ UNCHANGED <<powMode, fakeFail, unixNow, HdrOthers>>

\* Ethash.verifyHeaderWorker called by a worker goroutine of VerifyHeaders
\* on the first header of a batch (index 0, parent from the chain) or on
\* the second (index 1, parent the first header of the batch, whose hash
\* the header does not name when the parent is missing); VerifyHeaders
\* starts no worker in full-fake mode
CallVerifyHeaderWorker ==
    /\ hPc = "idle"
    /\ powMode # "fullFake"
    /\ \E D \in DefectSets, index \in {0, 1}, seal \in BOOLEAN :
          LET header == MakeHeader(config, D, unixNow)
              parent == MakeParent(config, D, unixNow)
              previous == IF "noParent" \in D THEN [parent EXCEPT !.Hash = 99]
                          ELSE parent
              headers == IF index = 0 THEN <<header>> ELSE <<previous, header>>
              ch == IF index = 0 /\ "noParent" \notin D THEN {parent} ELSE {}
          IN  /\ chain' = ch
              /\ hHeader' = header
              /\ hBatch' = headers
              /\ hSeal' = seal
              /\ hResult' = verifyHeaderWorker(config, powMode, fakeFail, ch, headers,
                                               [k \in 1 .. Len(headers) |-> seal],
                                               index, unixNow)
    /\ hUncle' = FALSE
    /\ hPc' = "done"
    /\ UNCHANGED <<powMode, fakeFail, unixNow, HdrOthers>>

NextHeader == CallVerifyHeader \/ CallVerifyHeaderAsUncle \/ CallVerifyHeaderWorker

SpecHeader == InitHeader /\ [][NextHeader]_vars

\* the parent the call verified the header against: for the second header
\* of a batch the first one when the hashes link, else the one the chain
\* knows
hParent ==
    IF Len(hBatch) = 2
    THEN (IF hBatch[1].Hash = hHeader.ParentHash THEN hBatch[1] ELSE NoHeader)
    ELSE GetHeader(chain, hHeader.ParentHash, hHeader.Number - 1)

\* the header was already known to the chain
hKnown == GetHeader(chain, hHeader.Hash, hHeader.Number) # NoHeader

\* The checks of a header against a present parent in the order the claim
\* gives them, each with the errors that report it.
C3_Checks ==
    << <<hHeader.ExtraLen > MaximumExtraDataSize, {ErrExtraTooLong}>>,
       <<~hUncle /\ hHeader.Time > unixNow + 15, {ErrFutureBlock}>>,
       <<hHeader.Time <= hParent.Time, {errOlderBlockTime}>>,
       <<hHeader.Difficulty # CalcDifficulty(config, hHeader.Time, hParent),
         {ErrInvalidDifficultyValue}>>,
       <<hHeader.GasLimit > MaxGasLimit, {ErrInvalidGasLimit}>>,
       <<hHeader.GasUsed > hHeader.GasLimit, {ErrInvalidGasUsed}>>,
       <<(~IsLondon(config, hHeader.Number) /\ hHeader.BaseFee # Nil)
            \/ ~hHeader.ForkRuleOK,
         {ErrBaseFeeBeforeFork, ErrVerifyGaslimit, ErrVerifyEip1559Header}>>,
       <<hHeader.Number # hParent.Number + 1, {ErrInvalidNumber}>>,
       <<hSeal /\ verifySeal(powMode, fakeFail, hHeader) # ErrNil,
         {errInvalidDifficulty, errInvalidMixDigest, errInvalidPoW}>> >>

C3_Failing == { i \in 1 .. Len(C3_Checks) : C3_Checks[i][1] }

C3_First == CHOOSE i \in C3_Failing : \A j \in C3_Failing : i <= j

\* C3: for a header that is not already known, outside full-fake mode, the
\* verification returns the error of the first failing check in the order:
\* missing parent, extra-data, future timestamp (non-uncles), timestamp not
\* after the parent's, difficulty, gas limit, gas used, fork rule, number,
\* and the seal check when requested; a later failure never masks an earlier.
C3_FirstFailingCheckReported ==
    (hPc = "done" /\ powMode # "fullFake" /\ (hUncle \/ ~hKnown)) =>
        IF hParent = NoHeader THEN hResult = ErrUnknownAncestor
        ELSE IF C3_Failing = {}
             THEN hResult \in {ErrNil, ErrDAOExtraData, ErrForkHash}
             ELSE hResult \in C3_Checks[C3_First][2]

\* C3 witness: a header failing both the difficulty check and the later
\* gas-used check was verified, and the difficulty error was returned.
C3_Witness ==
    /\ hPc = "done" /\ powMode = "normal" /\ ~hUncle /\ ~hKnown
    /\ hParent # NoHeader
    /\ hHeader.GasUsed > hHeader.GasLimit
    /\ hHeader.Difficulty # CalcDifficulty(config, hHeader.Time, hParent)
    /\ C3_Failing = {4, 6}
    /\ hResult = ErrInvalidDifficultyValue

\* the call ran the header check: every call but a VerifyHeader call in
\* full-fake mode or on a header the chain knows already
hChecked ==
    /\ hPc = "done"
    /\ \/ hUncle
       \/ Len(hBatch) > 0
       \/ powMode # "fullFake" /\ ~hKnown

\* C23: a header that verifyHeader accepted has the number of its parent
\* plus 1, a time after the parent's, the difficulty CalcDifficulty gives
\* for its time and parent, and gas used within its gas limit; accepted as
\* the second header of a batch, its parent is the first header of the
\* batch, whose hash it names.
C23_AcceptedHeaderChains ==
    (hChecked /\ hResult = ErrNil) =>
        /\ Len(hBatch) = 2 =>
              /\ hHeader.ParentHash = hBatch[1].Hash
              /\ hParent = hBatch[1]
        /\ hParent # NoHeader
        /\ hHeader.Number = hParent.Number + 1
        /\ hHeader.Time > hParent.Time
        /\ hHeader.Difficulty = CalcDifficulty(config, hHeader.Time, hParent)
        /\ hHeader.GasUsed <= hHeader.GasLimit

\* C23 witness: the second header of a batch was accepted against the
\* first header of the batch.
C23_Witness ==
    /\ hChecked
    /\ Len(hBatch) = 2
    /\ hResult = ErrNil
    /\ hParent = hBatch[1]
    /\ hHeader.Number = hBatch[1].Number + 1
    /\ hHeader.Time > hBatch[1].Time

----------------------------------------------------------------------------
(* Batch verification: Ethash.VerifyHeaders and its goroutines.  The code's *)
(* index i (from 0) addresses element i+1 of the sequences.                *)

\* mutant: the slot of the completed index is emitted (completion order)
EmitValue_ByCompletion(errs, out, index) == errs[index + 1]

\* the value sent on errorsOut: errors[out]
EmitValue(errs, out, index) == errs[out + 1]

\* mutant: a completion is received and nothing is emitted
EmitLoop_Nothing(chk, out, errs, q, index) ==
    [out |-> out, q |-> q, returned |-> FALSE]

\* mutant: on a completion every slot not yet emitted is emitted, checked
\* or not
EmitLoop_Eager(chk, out, errs, q, index) ==
    [out |-> Len(errs) - 1,
     q |-> q \o [k \in 1 .. Len(errs) - out |-> errs[out + k]],
     returned |-> TRUE]

RECURSIVE EmitLoop(_, _, _, _, _)
\* for ...; checked[out]; out++ { errorsOut <- errors[out]; if out == len(headers)-1 { return } }
EmitLoop(chk, out, errs, q, index) ==
    IF chk[out + 1]
    THEN LET q2 == Append(q, EmitValue(errs, out, index))
         IN  IF out = Len(errs) - 1
             THEN [out |-> out, q |-> q2, returned |-> TRUE]
             ELSE EmitLoop(chk, out + 1, errs, q2, index)
    ELSE [out |-> out, q |-> q, returned |-> FALSE]

\* mutant: the abort case leaves the select but not the loop
CoordSelecting_AbortIgnored == cPc = "select" \/ cPc = "aborted"

\* the coordinator goroutine is in its for { select { ... } } loop
CoordSelecting == cPc = "select"

----------------------------------------------------------------------------
(* Inputs of batch verification: a chain of headers, each built on the one *)
(* before it and damaged according to its kind.                            *)

\* the longest batch
MaxHeaders == 3

\* the largest runtime.GOMAXPROCS(0)
MaxProcs == 2

\* "ok" passes; "gasUsed" has gas used above its gas limit; "badLink" does not
\* name the previous header (for the first header: the chain's head) as parent
BatchKinds == {"ok", "gasUsed", "badLink"}

BatchParent ==
    [Hash |-> 1, ParentHash |-> 0, Number |-> 5, Time |-> 1000,
     Difficulty |-> 200000, GasLimit |-> 5000, GasUsed |-> 0, BaseFee |-> Nil,
     ExtraLen |-> 0, HasUncles |-> FALSE,
     DigestOK |-> TRUE, PowOK |-> TRUE, ForkRuleOK |-> TRUE,
     DAOOK |-> TRUE, ForkHashOK |-> TRUE]

RECURSIVE BatchHeader(_, _, _)
BatchHeader(c, kinds, i) ==
    LET prev == IF i = 1 THEN BatchParent ELSE BatchHeader(c, kinds, i - 1)
        time == prev.Time + 10
    IN  [Hash |-> 10 + i,
         ParentHash |-> IF kinds[i] = "badLink" THEN 99 ELSE prev.Hash,
         Number |-> prev.Number + 1,
         Time |-> time,
         Difficulty |-> CalcDifficulty(c, time, prev),
         GasLimit |-> 5000,
         GasUsed |-> IF kinds[i] = "gasUsed" THEN 5001 ELSE 21,
         BaseFee |-> Nil, ExtraLen |-> 0, HasUncles |-> FALSE,
         DigestOK |-> TRUE, PowOK |-> TRUE, ForkRuleOK |-> TRUE,
         DAOOK |-> TRUE, ForkHashOK |-> TRUE]

MakeBatch(c, kinds) == [i \in 1 .. Len(kinds) |-> BatchHeader(c, kinds, i)]

BatchKindSeqs == UNION { [1 .. n -> BatchKinds] : n \in 0 .. MaxHeaders }

----------------------------------------------------------------------------
(* Specification SpecBatch: one call of VerifyHeaders, its workers, its     *)
(* coordinator and the caller's use of the abort channel                   *)

InitBatch ==
    /\ config = Cfg(Nil, Nil, Nil, Nil, Nil, Nil, Nil, Nil)
    /\ ethwStartDifficulty = MinimumDifficulty
    /\ powMode \in {"normal", "fullFake"}
    /\ fakeFail = 0
    /\ chain = {BatchParent}
    /\ unixNow \in NowChoices
    /\ BatchIdle
    /\ BatchOthersIdle

\* VerifyHeaders is called on a batch drawn from kindSeqs: the full-fake /
\* empty-batch return, or the start of the workers and of the coordinator
\* (consensus.go:160-190)
CallVerifyHeadersOf(kindSeqs) ==
    /\ bPc = "idle"
    /\ \E kinds \in kindSeqs, procs \in 1 .. MaxProcs :
          LET n == Len(kinds)
              w == IF n < procs THEN n ELSE procs
          IN  /\ bHeaders' = MakeBatch(config, kinds)
              /\ bSeals' = [i \in 1 .. n |-> TRUE]
              /\ IF powMode = "fullFake" \/ n = 0
                 THEN /\ bPc' = "fake"
                      /\ errorsOut' = [i \in 1 .. n |-> ErrNil]
                      /\ UNCHANGED <<workers, wPc, wIdx, errors, checked>>
                 ELSE /\ bPc' = "running"
                      /\ errorsOut' = <<>>
                      /\ workers' = w
                      /\ wPc' = [i \in 1 .. w |-> "recv"]
                      /\ wIdx' = [i \in 1 .. w |-> 0]
                      /\ errors' = [i \in 1 .. n |-> ErrNil]
                      /\ checked' = [i \in 1 .. n |-> FALSE]
    /\ UNCHANGED <<inputsClosed, done, abort, cPc, cIn, cOut, recvOrder>>
    /\ UNCHANGED <<engineVars, BatchOthers>>

CallVerifyHeaders == CallVerifyHeadersOf(BatchKindSeqs)

\* case inputs <- in: the coordinator hands index in to a worker blocked on
\* range inputs (inputs is unbuffered); inputs becomes nil after the last index.
\* The worker goroutines run the same code and nothing tells them apart, so of
\* the workers blocked on inputs the lowest-numbered one stands for whichever
\* the runtime wakes.
Dispatch(w) ==
    /\ bPc = "running" /\ CoordSelecting
    /\ cIn < Len(bHeaders)
    /\ wPc[w] = "recv"
    /\ \A v \in 1 .. w - 1 : wPc[v] # "recv"
    /\ wPc' = [wPc EXCEPT ![w] = "verify"]
    /\ wIdx' = [wIdx EXCEPT ![w] = cIn]
    /\ cIn' = cIn + 1
    /\ UNCHANGED <<bPc, bHeaders, bSeals, workers, inputsClosed, done, errors,
                   abort, cPc, cOut, checked, errorsOut, recvOrder>>
    /\ UNCHANGED <<engineVars, BatchOthers>>

\* errors[index] = ethash.verifyHeaderWorker(chain, headers, seals, index, unixNow)
WorkerVerify(w) ==
    /\ bPc = "running"
    /\ wPc[w] = "verify"
    /\ errors' = [errors EXCEPT ![wIdx[w] + 1] =
                     verifyHeaderWorker(config, powMode, fakeFail, chain, bHeaders,
                                        bSeals, wIdx[w], unixNow)]
    /\ wPc' = [wPc EXCEPT ![w] = "send"]
    /\ UNCHANGED <<bPc, bHeaders, bSeals, workers, wIdx, inputsClosed, done,
                   abort, cPc, cIn, cOut, checked, errorsOut, recvOrder>>
    /\ UNCHANGED <<engineVars, BatchOthers>>

\* done <- index (done has capacity workers)
WorkerSend(w) ==
    /\ bPc = "running"
    /\ wPc[w] = "send"
    /\ Len(done) < workers
    /\ done' = Append(done, wIdx[w])
    /\ wPc' = [wPc EXCEPT ![w] = "recv"]
    /\ UNCHANGED <<bPc, bHeaders, bSeals, workers, wIdx, inputsClosed, errors,
                   abort, cPc, cIn, cOut, checked, errorsOut, recvOrder>>
    /\ UNCHANGED <<engineVars, BatchOthers>>

\* the range over inputs ends once inputs is closed
WorkerExit(w) ==
    /\ bPc = "running"
    /\ wPc[w] = "recv"
    /\ inputsClosed
    /\ wPc' = [wPc EXCEPT ![w] = "exit"]
    /\ UNCHANGED <<bPc, bHeaders, bSeals, workers, wIdx, inputsClosed, done, errors,
                   abort, cPc, cIn, cOut, checked, errorsOut, recvOrder>>
    /\ UNCHANGED <<engineVars, BatchOthers>>

\* case index := <-done: mark it checked and emit every contiguous checked
\* slot; return (running the deferred close(inputs)) after the last slot
CoordRecvDone ==
    /\ bPc = "running" /\ CoordSelecting
    /\ done # <<>>
    /\ LET index == Head(done)
           chk == [checked EXCEPT ![index + 1] = TRUE]
           r == EmitLoop(chk, cOut, errors, errorsOut, index)
       IN  /\ checked' = chk
           /\ cOut' = r.out
           /\ errorsOut' = r.q
           /\ cPc' = IF r.returned THEN "returned" ELSE cPc
           /\ inputsClosed' = (inputsClosed \/ r.returned)
    /\ done' = Tail(done)
    /\ recvOrder' = Append(recvOrder, Head(done))
    /\ UNCHANGED <<bPc, bHeaders, bSeals, workers, wPc, wIdx, errors, abort, cIn>>
    /\ UNCHANGED <<engineVars, BatchOthers>>

\* the caller closes the abort channel
AbortClose ==
    /\ bPc = "running"
    /\ abort = "open"
    /\ abort' = "closed"
    /\ UNCHANGED <<bPc, bHeaders, bSeals, workers, wPc, wIdx, inputsClosed, done,
                   errors, cPc, cIn, cOut, checked, errorsOut, recvOrder>>
    /\ UNCHANGED <<engineVars, BatchOthers>>

\* case <-abort on a closed channel: return, running the deferred close(inputs)
CoordAbort ==
    /\ bPc = "running" /\ cPc = "select"
    /\ abort = "closed"
    /\ cPc' = "aborted"
    /\ inputsClosed' = TRUE
    /\ UNCHANGED <<bPc, bHeaders, bSeals, workers, wPc, wIdx, done, errors,
                   abort, cIn, cOut, checked, errorsOut, recvOrder>>
    /\ UNCHANGED <<engineVars, BatchOthers>>

\* the caller sends on the (unbuffered) abort channel and the coordinator
\* receives it in case <-abort: return, running the deferred close(inputs)
AbortSend ==
    /\ bPc = "running" /\ cPc = "select"
    /\ abort = "open"
    /\ abort' = "sent"
    /\ cPc' = "aborted"
    /\ inputsClosed' = TRUE
    /\ UNCHANGED <<bPc, bHeaders, bSeals, workers, wPc, wIdx, done, errors,
                   cIn, cOut, checked, errorsOut, recvOrder>>
    /\ UNCHANGED <<engineVars, BatchOthers>>

NextBatch ==
    \/ CallVerifyHeaders
    \/ \E w \in 1 .. workers : Dispatch(w)
    \/ \E w \in 1 .. workers : WorkerVerify(w)
    \/ \E w \in 1 .. workers : WorkerSend(w)
    \/ \E w \in 1 .. workers : WorkerExit(w)
    \/ CoordRecvDone
    \/ AbortClose
    \/ CoordAbort
    \/ AbortSend

SpecBatch == InitBatch /\ [][NextBatch]_vars

\* the steps of worker goroutine w
WorkerStep(w) ==
    /\ w \in 1 .. workers
    /\ (WorkerVerify(w) \/ WorkerSend(w) \/ WorkerExit(w))

\* the steps of the coordinator goroutine
CoordStep == (\E w \in 1 .. workers : Dispatch(w)) \/ CoordRecvDone \/ CoordAbort

\* The Go scheduler runs every goroutine that can take a step: no worker
\* and no coordinator stays runnable forever without running.  The caller
\* is free to trigger abort or not.
FairBatch ==
    /\ \A w \in 1 .. MaxProcs : WF_vars(WorkerStep(w))
    /\ WF_vars(CoordStep)

\* No goroutine of VerifyHeaders looks at a verdict: which steps they can
\* take depends on the number of headers and of workers alone.  The batches
\* of the fair specification are those whose headers are all of one kind,
\* accepted or rejected.
LiveKindSeqs ==
    { [i \in 1 .. n |-> kind] : n \in 0 .. MaxHeaders, kind \in {"ok", "gasUsed"} }

CallVerifyHeadersLive == CallVerifyHeadersOf(LiveKindSeqs)

NextBatchLive ==
    \/ CallVerifyHeadersLive
    \/ \E w \in 1 .. workers : Dispatch(w)
    \/ \E w \in 1 .. workers : WorkerVerify(w)
    \/ \E w \in 1 .. workers : WorkerSend(w)
    \/ \E w \in 1 .. workers : WorkerExit(w)
    \/ CoordRecvDone
    \/ AbortClose
    \/ CoordAbort
    \/ AbortSend

\* Specification SpecBatchLive: the batch under the scheduler's fairness
SpecBatchLive == InitBatch /\ [][NextBatchLive]_vars /\ FairBatch

\* the goroutines started by VerifyHeaders have all ended
bTerminated ==
    /\ cPc \in {"returned", "aborted"}
    /\ \A w \in 1 .. workers : wPc[w] = "exit"

\* C30: once abort is triggered during a batch, the coordinator and every
\* worker goroutine eventually end; no worker stays blocked on its send to
\* the done channel.
C30_AbortedBatchTerminates ==
    (bPc = "running" /\ abort # "open") ~> bTerminated

\* every result of the batch was emitted, the coordinator has returned, the
\* input channel is closed, every worker has ended and done is empty
bCompleted ==
    /\ cPc = "returned"
    /\ Len(errorsOut) = Len(bHeaders)
    /\ inputsClosed
    /\ \A w \in 1 .. workers : wPc[w] = "exit"
    /\ done = <<>>

\* C31: a batch of n >= 1 headers started on 1 to n workers, for which
\* abort is never triggered, eventually has all n results emitted, the
\* coordinator returned, the input channel closed and every worker ended
\* with the done channel empty.
C31_BatchWithoutAbortCompletes ==
    (bPc = "running") ~> (bCompleted \/ abort # "open")

\* C31 witness: a batch of three headers on two workers has completed
\* without abort.
C31_Witness ==
    /\ bPc = "running"
    /\ abort = "open"
    /\ Len(bHeaders) = 3 /\ workers = 2
    /\ bCompleted

\* the verdict of header index i (from 0) of the batch
C1_Verdict(i) ==
    IF powMode = "fullFake" THEN ErrNil
    ELSE verifyHeaderWorker(config, powMode, fakeFail, chain, bHeaders, bSeals, i, unixNow)

\* C1: the results channel carries the verdicts of headers 0, 1, 2, ... in
\* this order, none duplicated or skipped, whatever the order in which the
\* workers complete; when VerifyHeaders has delivered everything (the
\* coordinator returned, or the full-fake return) there is exactly one result
\* per header; and while abort is untouched the coordinator keeps running
\* until then.
C1_InOrderOnePerHeader ==
    bPc # "idle" =>
       /\ Len(errorsOut) <= Len(bHeaders)
       /\ \A k \in 1 .. Len(errorsOut) : errorsOut[k] = C1_Verdict(k - 1)
       /\ (bPc = "fake" \/ cPc = "returned") => Len(errorsOut) = Len(bHeaders)
       /\ (bPc = "running" /\ abort = "open") => cPc \in {"select", "returned"}
       /\ (bPc = "running" /\ cPc = "select") => Len(errorsOut) < Len(bHeaders)

\* C1 witness: a batch of three headers with different verdicts was delivered
\* completely, without abort, although the workers completed out of order.
C1_Witness ==
    /\ bPc = "running" /\ cPc = "returned" /\ abort = "open"
    /\ Len(bHeaders) = 3
    /\ recvOrder = <<1, 0, 2>>
    /\ errorsOut = <<ErrNil, ErrInvalidGasUsed, ErrUnknownAncestor>>

\* C4 (original statement): once the abort signal is triggered no further
\* index is handed out and no further result is delivered.
C4_StopsAtTrigger ==
    [][abort # "open" => (cIn' = cIn /\ errorsOut' = errorsOut)]_vars

\* C4 (amended): once the coordinator has received the abort signal (its
\* select has taken the abort case) no further index is handed out and no
\* further result is delivered; the results not emitted by then are dropped.
\* Between the closing of the abort channel and that receipt the select may
\* still take its other ready cases.
C4_StopsAtReceipt ==
    [][cPc = "aborted" =>
          (cPc' = "aborted" /\ cIn' = cIn /\ errorsOut' = errorsOut)]_vars

\* C4 witness: the coordinator has returned on abort while a completed
\* verification waits in done and results are missing on the results channel.
C4_Witness ==
    /\ bPc = "running" /\ cPc = "aborted"
    /\ done # <<>>
    /\ Len(errorsOut) < Len(bHeaders)
    /\ cIn < Len(bHeaders)

\* the verdict of element j of the batch, from that header, the header before
\* it taken as parent, and the shared time snapshot alone
C5_Expected(j) ==
    IF j = 1
    THEN LET p == GetHeader(chain, bHeaders[1].ParentHash, bHeaders[1].Number - 1)
         IN  IF p = NoHeader THEN ErrUnknownAncestor
             ELSE verifyHeader(config, powMode, fakeFail, bHeaders[1], p, FALSE,
                               bSeals[1], unixNow)
    ELSE IF bHeaders[j - 1].Hash # bHeaders[j].ParentHash THEN ErrUnknownAncestor
    ELSE verifyHeader(config, powMode, fakeFail, bHeaders[j], bHeaders[j - 1], FALSE,
                      bSeals[j], unixNow)

\* C5: an error for a header is delivered in that header's slot and ends
\* nothing: every slot written holds the verdict that depends only on its
\* header, on the previous header taken as parent when the hashes match
\* (ErrUnknownAncestor otherwise) and on the time snapshot, whether or not the
\* previous header was accepted; a coordinator that returns without abort has
\* delivered every slot.
C5_ErrorsStayInTheirSlot ==
    bPc = "running" =>
       /\ \A j \in 1 .. Len(errorsOut) : errorsOut[j] = C5_Expected(j)
       /\ \A j \in 1 .. Len(bHeaders) : checked[j] => errors[j] = C5_Expected(j)
       /\ cPc = "returned" => Len(errorsOut) = Len(bHeaders)

\* C5 witness: a rejected header is followed by an accepted one that names it
\* as parent, and both verdicts were delivered.
C5_Witness ==
    /\ bPc = "running" /\ cPc = "returned"
    /\ \E j \in 1 .. Len(errorsOut) - 1 :
          /\ errorsOut[j] = ErrInvalidGasUsed
          /\ errorsOut[j + 1] = ErrNil
          /\ bHeaders[j + 1].ParentHash = bHeaders[j].Hash

\* the indexes held by the workers that stand at pc
bHeld(pc) == { wIdx[w] : w \in { v \in 1 .. workers : wPc[v] = pc } }

\* the indexes whose completion waits in done, and those the coordinator
\* has received from done
bSignalled == { done[k] : k \in 1 .. Len(done) }

bReceived == { recvOrder[k] : k \in 1 .. Len(recvOrder) }

\* the number of workers between the receipt of an index and its completion
\* signal
bBusy == Cardinality({ w \in 1 .. workers : wPc[w] \in {"verify", "send"} })

\* C32: in a batch every index handed out so far is in exactly one place
\* (under verification, written and about to be signalled, signalled, or
\* received by the coordinator), so none was handed out twice, and the
\* indexes handed out are 0 .. in-1; a slot is emitted only after its
\* completion was received, with the value its worker wrote; no worker is
\* about to write a slot already emitted or already signalled; a
\* coordinator that returns without abort has handed out and received
\* every index exactly once.
C32_EachIndexOnceAndReadAfterWrite ==
    bPc = "running" =>
       /\ bHeld("verify") \cup bHeld("send") \cup bSignalled \cup bReceived
             = 0 .. cIn - 1
       /\ bBusy + Len(done) + Len(recvOrder) = cIn
       /\ cIn <= Len(bHeaders)
       /\ \A j \in 1 .. Len(errorsOut) :
             /\ j - 1 \in bReceived
             /\ checked[j]
             /\ errorsOut[j] = errors[j]
             /\ errors[j] = verifyHeaderWorker(config, powMode, fakeFail, chain,
                                               bHeaders, bSeals, j - 1, unixNow)
       /\ \A w \in 1 .. workers :
             wPc[w] = "verify" =>
                /\ wIdx[w] >= Len(errorsOut)
                /\ ~checked[wIdx[w] + 1]
                /\ wIdx[w] \notin bSignalled
       /\ cPc = "returned" =>
             /\ cIn = Len(bHeaders)
             /\ Len(recvOrder) = Len(bHeaders)
             /\ bReceived = 0 .. Len(bHeaders) - 1
             /\ Len(errorsOut) = Len(bHeaders)

\* C32 witness: a batch of three headers on two workers has returned, the
\* completion of a later index received before that of an earlier one, and
\* every slot was emitted.
C32_Witness ==
    /\ bPc = "running" /\ cPc = "returned"
    /\ Len(bHeaders) = 3 /\ workers = 2
    /\ \E k \in 1 .. Len(recvOrder) - 1 : recvOrder[k] > recvOrder[k + 1]
    /\ Len(errorsOut) = 3

----------------------------------------------------------------------------
(* Uncle verification: Ethash.VerifyUncles.  A block is a header record    *)
(* with the field Uncles, the sequence of its uncle headers; the chain     *)
(* reader holds blocks, chain.GetBlock answering like chain.GetHeader.     *)

maxUncles == 2

errTooManyUncles == "too many uncles"

errDuplicateUncle == "duplicate uncle"

errUncleIsAncestor == "uncle is ancestor"

errDanglingUncle == "uncle's parent is not ancestor"

\* chain.GetBlock(hash, number)
GetBlock(ch, hash, number) == GetHeader(ch, hash, number)

\* ancestors[hash] for the map ancestors, held as a set of headers
AncestorOf(anc, hash) ==
    IF \E h \in anc : h.Hash = hash
    THEN CHOOSE h \in anc : h.Hash = hash
    ELSE NoHeader

\* one call of the chain reader, as the history of lookups records it
Lookup(fn, hash, number) == [fn |-> fn, hash |-> hash, number |-> number]

RECURSIVE WalkAncestors(_, _, _, _, _, _, _)
\* the loop gathering the previous 7 ancestors and the uncles they include
\* (consensus.go:246-264); it ends early where the chain knows no further
\* ancestor; looks is the history of the chain lookups made so far
WalkAncestors(ch, parent, number, i, anc, unc, looks) ==
    IF i >= 7 THEN [ancestors |-> anc, uncles |-> unc, lookups |-> looks]
    ELSE LET ancestorHeader == GetHeader(ch, parent, number)
             looked == Append(looks, Lookup("GetHeader", parent, number))
         IN  IF ancestorHeader = NoHeader
             THEN [ancestors |-> anc, uncles |-> unc, lookups |-> looked]
             ELSE IF ancestorHeader.HasUncles
             THEN LET ancestor == GetBlock(ch, parent, number)
                      fetched == Append(looked, Lookup("GetBlock", parent, number))
                  IN  IF ancestor = NoHeader
                      THEN [ancestors |-> anc \cup {ancestorHeader}, uncles |-> unc,
                            lookups |-> fetched]
                      ELSE WalkAncestors(ch, ancestorHeader.ParentHash, number - 1, i + 1,
                              anc \cup {ancestorHeader},
                              unc \cup { ancestor.Uncles[k].Hash :
                                            k \in 1 .. Len(ancestor.Uncles) },
                              fetched)
             ELSE WalkAncestors(ch, ancestorHeader.ParentHash, number - 1, i + 1,
                                anc \cup {ancestorHeader}, unc, looked)

\* mutant: the hash of an examined uncle is not remembered
AddUncle_Forgotten(unc, hash) == unc

\* uncles.Add(hash)
AddUncle(unc, hash) == unc \cup {hash}

\* mutant: an uncle whose parent is the block's own parent is not rejected
checkUncle_SiblingAllowed(c, mode, ff, block, anc, unc, uncle, now) ==
    IF uncle.Hash \in unc
    THEN [kind |-> "duplicate", err |-> errDuplicateUncle]
    ELSE IF AncestorOf(anc, uncle.Hash) # NoHeader
    THEN [kind |-> "ancestor", err |-> errUncleIsAncestor]
    ELSE IF AncestorOf(anc, uncle.ParentHash) = NoHeader
    THEN [kind |-> "dangling", err |-> errDanglingUncle]
    ELSE [kind |-> "verified",
          err |-> verifyHeader(c, mode, ff, uncle, AncestorOf(anc, uncle.ParentHash),
                               TRUE, TRUE, now)]

\* mutant: an uncle is verified like any header, the future-time check made
\* and the seal left unchecked
checkUncle_AsPlainHeader(c, mode, ff, block, anc, unc, uncle, now) ==
    IF uncle.Hash \in unc
    THEN [kind |-> "duplicate", err |-> errDuplicateUncle]
    ELSE IF AncestorOf(anc, uncle.Hash) # NoHeader
    THEN [kind |-> "ancestor", err |-> errUncleIsAncestor]
    ELSE IF AncestorOf(anc, uncle.ParentHash) = NoHeader
            \/ uncle.ParentHash = block.ParentHash
    THEN [kind |-> "dangling", err |-> errDanglingUncle]
    ELSE [kind |-> "verified",
          err |-> verifyHeader(c, mode, ff, uncle, AncestorOf(anc, uncle.ParentHash),
                               FALSE, FALSE, now)]

\* the body of the loop over block.Uncles() (consensus.go:269-283): what
\* happens to the uncle, and the error that ends the loop ("nil": none)
checkUncle(c, mode, ff, block, anc, unc, uncle, now) ==
    IF uncle.Hash \in unc
    THEN [kind |-> "duplicate", err |-> errDuplicateUncle]
    ELSE IF AncestorOf(anc, uncle.Hash) # NoHeader
    THEN [kind |-> "ancestor", err |-> errUncleIsAncestor]
    ELSE IF AncestorOf(anc, uncle.ParentHash) = NoHeader
            \/ uncle.ParentHash = block.ParentHash
    THEN [kind |-> "dangling", err |-> errDanglingUncle]
    ELSE [kind |-> "verified",
          err |-> verifyHeader(c, mode, ff, uncle, AncestorOf(anc, uncle.ParentHash),
                               TRUE, TRUE, now)]

RECURSIVE UncleLoop(_, _, _, _, _, _, _, _, _)
UncleLoop(c, mode, ff, block, anc, unc, i, trace, now) ==
    IF i > Len(block.Uncles) THEN [err |-> ErrNil, trace |-> trace]
    ELSE LET uncle == block.Uncles[i]
             r == checkUncle(c, mode, ff, block, anc, unc, uncle, now)
         IN  IF r.err # ErrNil
             THEN [err |-> r.err, trace |-> Append(trace, r)]
             ELSE UncleLoop(c, mode, ff, block, anc, AddUncle(unc, uncle.Hash),
                            i + 1, Append(trace, r), now)

\* mutant: the ancestors are gathered before the uncles are counted
VerifyUncles_CountedAfterWalk(c, mode, ff, ch, block, now) ==
    IF mode = "fullFake" THEN [err |-> ErrNil, trace |-> <<>>, lookups |-> <<>>]
    ELSE LET w == WalkAncestors(ch, block.ParentHash, block.Number - 1, 0, {}, {}, <<>>)
             r == UncleLoop(c, mode, ff, block,
                            w.ancestors \cup {[block EXCEPT !.Uncles = <<>>]},
                            w.uncles \cup {block.Hash}, 1, <<>>, now)
         IN  IF Len(block.Uncles) > maxUncles
             THEN [err |-> errTooManyUncles, trace |-> <<>>, lookups |-> w.lookups]
             ELSE [err |-> r.err, trace |-> r.trace, lookups |-> w.lookups]

\* Ethash.VerifyUncles(chain, block): the returned error, the history of
\* the uncles examined and the history of the chain lookups made
VerifyUncles(c, mode, ff, ch, block, now) ==
    IF mode = "fullFake" THEN [err |-> ErrNil, trace |-> <<>>, lookups |-> <<>>]
    ELSE IF Len(block.Uncles) > maxUncles
    THEN [err |-> errTooManyUncles, trace |-> <<>>, lookups |-> <<>>]
    ELSE IF Len(block.Uncles) = 0
    THEN [err |-> ErrNil, trace |-> <<>>, lookups |-> <<>>]
    ELSE LET w == WalkAncestors(ch, block.ParentHash, block.Number - 1, 0, {}, {}, <<>>)
             r == UncleLoop(c, mode, ff, block,
                            w.ancestors \cup {[block EXCEPT !.Uncles = <<>>]},
                            w.uncles \cup {block.Hash}, 1, <<>>, now)
         IN  [err |-> r.err, trace |-> r.trace, lookups |-> w.lookups]

----------------------------------------------------------------------------
(* Inputs of uncle verification.  The canonical chain is linear and the    *)
(* hash of its block at height k is k; the verified block stands at height *)
(* UncleBlockNumber on top of it.  Every other header has a hash of its    *)
(* own above the heights.  A header's parent and uncles exist before the   *)
(* header does, so no uncle names the verified block as its parent.        *)

UncleBlockNumber == 12

\* the largest number of uncles in a generated block
MaxUncleCount == 3

UncleConfig == Cfg(Nil, Nil, Nil, Nil, Nil, Nil, Nil, Nil)

\* an uncle header with the given hash, child of parent, sealed at time
StaleHeader(c, hash, parent, time, powOK) ==
    [Hash |-> hash, ParentHash |-> parent.Hash, Number |-> parent.Number + 1,
     Time |-> time, Difficulty |-> CalcDifficulty(c, time, parent),
     GasLimit |-> 5000, GasUsed |-> 21, BaseFee |-> Nil, ExtraLen |-> 0,
     HasUncles |-> FALSE, DigestOK |-> TRUE, PowOK |-> powOK,
     ForkRuleOK |-> TRUE, DAOOK |-> TRUE, ForkHashOK |-> TRUE, Uncles |-> <<>>]

\* the canonical header at height k, without the uncles of its block
ChainHeader(k) ==
    [Hash |-> k, ParentHash |-> k - 1, Number |-> k, Time |-> 1000 + 10 * k,
     Difficulty |-> 200000, GasLimit |-> 5000, GasUsed |-> 0, BaseFee |-> Nil,
     ExtraLen |-> 0, HasUncles |-> FALSE, DigestOK |-> TRUE, PowOK |-> TRUE,
     ForkRuleOK |-> TRUE, DAOOK |-> TRUE, ForkHashOK |-> TRUE, Uncles |-> <<>>]

\* the uncle with hash 60 + k is the one the canonical block at height k
\* includes; its parent stands two below that block
IncludedUncle(c, k) ==
    StaleHeader(c, 60 + k, ChainHeader(k - 2), ChainHeader(k - 2).Time + 7, TRUE)

\* the heights of the canonical blocks that include an uncle: the ancestors
\* of the verified block at depth 2, 7 and 8
UncleIncluders == {UncleBlockNumber - 2, UncleBlockNumber - 7, UncleBlockNumber - 8}

ChainBlock(c, k) ==
    IF k \in UncleIncluders
    THEN [ChainHeader(k) EXCEPT !.HasUncles = TRUE, !.Uncles = <<IncludedUncle(c, k)>>]
    ELSE ChainHeader(k)

\* the chain from height low up to the parent of the verified block
UncleChain(c, low) == { ChainBlock(c, k) : k \in low .. UncleBlockNumber - 1 }

\* the lowest block the chain reader knows: the whole history, or only the
\* 4 blocks below the verified one (a block close to the genesis block)
UncleChainLows == {1, UncleBlockNumber - 4}

\* a header nobody knows
OrphanParent == [ChainHeader(3) EXCEPT !.Hash = 99, !.ParentHash = 98]

\* the uncle candidates
UncleUniverse(c, now) ==
    {   \* fresh uncles, children of the ancestors at depth 1, 2, 7 and 8
        StaleHeader(c, 31, ChainBlock(c, UncleBlockNumber - 1), 1115, TRUE),
        StaleHeader(c, 32, ChainBlock(c, UncleBlockNumber - 2), 1105, TRUE),
        StaleHeader(c, 37, ChainBlock(c, UncleBlockNumber - 7), 1055, TRUE),
        StaleHeader(c, 38, ChainBlock(c, UncleBlockNumber - 8), 1045, TRUE),
        \* a child of an unknown header
        StaleHeader(c, 39, OrphanParent, 1035, TRUE),
        \* children of the ancestor at depth 3: a bad seal, a far future time
        StaleHeader(c, 43, ChainBlock(c, UncleBlockNumber - 3), 1095, FALSE),
        StaleHeader(c, 53, ChainBlock(c, UncleBlockNumber - 3), now + 1000, TRUE),
        \* canonical headers: the ancestors at depth 3 and at depth 8
        ChainHeader(UncleBlockNumber - 3),
        ChainHeader(UncleBlockNumber - 8),
        \* the verified block's own header
        ChainHeader(UncleBlockNumber) }
    \cup { IncludedUncle(c, k) : k \in UncleIncluders }

UncleSeqs(c, now) ==
    UNION { [1 .. n -> UncleUniverse(c, now)] : n \in 0 .. MaxUncleCount }

MakeBlock(c, uncles) ==
    [ChainHeader(UncleBlockNumber) EXCEPT !.HasUncles = (Len(uncles) > 0),
                                          !.Uncles = uncles]

----------------------------------------------------------------------------
(* Specification SpecUncles: one call of VerifyUncles *)

InitUncles ==
    /\ config = UncleConfig
    /\ ethwStartDifficulty = MinimumDifficulty
    /\ powMode \in {"normal", "fullFake"}
    /\ fakeFail = 0
    /\ \E low \in UncleChainLows : chain = UncleChain(config, low)
    /\ unixNow \in NowChoices
    /\ UncleIdle
    /\ UncleOthersIdle

CallVerifyUncles ==
    /\ uPc = "idle"
    /\ \E uncles \in UncleSeqs(config, unixNow) :
          LET block == MakeBlock(config, uncles)
              r == VerifyUncles(config, powMode, fakeFail, chain, block, unixNow)
          IN  /\ uBlock' = block
              /\ uResult' = r.err
              /\ uTrace' = r.trace
              /\ uLookups' = r.lookups
    /\ uPc' = "done"
    /\ UNCHANGED <<engineVars, config, ethwStartDifficulty, UncleOthers>>

NextUncles == CallVerifyUncles

SpecUncles == InitUncles /\ [][NextUncles]_vars

\* the ancestor of the verified block at depth d as the chain reader knows
\* it, NoHeader where the chain knows none
RECURSIVE uAncestor(_)
uAncestor(d) ==
    IF d = 1 THEN GetHeader(chain, uBlock.ParentHash, uBlock.Number - 1)
    ELSE LET below == uAncestor(d - 1)
         IN  IF below = NoHeader THEN NoHeader
             ELSE GetHeader(chain, below.ParentHash, below.Number - 1)

\* the hashes of the last 7 ancestors of the verified block
uAncestorHashes == { uAncestor(d).Hash : d \in 1 .. 7 } \ {Nil}

\* the hashes of the uncles included by the last 7 ancestors
uIncludedHashes ==
    UNION { { uAncestor(d).Uncles[k].Hash : k \in 1 .. Len(uAncestor(d).Uncles) } :
            d \in { e \in 1 .. 7 : uAncestor(e) # NoHeader } }

\* the i-th uncle of the verified block repeats the block's own hash, an
\* uncle of one of the last 7 ancestors, or an earlier uncle of the block
uIsDuplicate(i) ==
    \/ uBlock.Uncles[i].Hash = uBlock.Hash
    \/ uBlock.Uncles[i].Hash \in uIncludedHashes
    \/ \E j \in 1 .. i - 1 : uBlock.Uncles[j].Hash = uBlock.Uncles[i].Hash

\* a call of VerifyUncles that reached its loop over the uncles has returned
uLooped ==
    /\ uPc = "done"
    /\ powMode # "fullFake"
    /\ Len(uBlock.Uncles) \in 1 .. maxUncles

\* C6 as stated: VerifyUncles returns the duplicate-uncle error for every
\* block one of whose uncles repeats the block's hash, an uncle included by
\* one of the last 7 ancestors, or an earlier uncle of the block.
C6_DuplicateInBlockRejected ==
    (uLooped /\ \E i \in 1 .. Len(uBlock.Uncles) : uIsDuplicate(i))
        => uResult = errDuplicateUncle

\* C6 amended: the uncles are examined in block order while every earlier
\* one has passed all its checks; when the uncle examined repeats the
\* block's hash, an uncle included by one of the last 7 ancestors, or an
\* earlier uncle of the block, VerifyUncles returns the duplicate-uncle
\* error at that uncle, and of two uncles with one hash it is the second
\* occurrence that raises it.
C6_ExaminedDuplicateRejected ==
    uLooped =>
        /\ \A i \in 1 .. Len(uTrace) :
              /\ \A j \in 1 .. i - 1 : uTrace[j].err = ErrNil
              /\ uIsDuplicate(i) =>
                    /\ uTrace[i].kind = "duplicate"
                    /\ Len(uTrace) = i
                    /\ uResult = errDuplicateUncle
        /\ \A i \in 1 .. Len(uBlock.Uncles) :
              (\A j \in 1 .. i - 1 : j <= Len(uTrace) /\ uTrace[j].err = ErrNil)
                  => i <= Len(uTrace)

\* C6 witness: a block whose two uncles have one hash, the first of them
\* passed, the second rejected as a duplicate.
C6_Witness ==
    /\ uLooped
    /\ Len(uBlock.Uncles) = 2
    /\ uBlock.Uncles[1].Hash = uBlock.Uncles[2].Hash
    /\ Len(uTrace) = 2
    /\ uTrace[1].err = ErrNil
    /\ uTrace[2].kind = "duplicate"
    /\ uResult = errDuplicateUncle

\* C7: an examined uncle that is not a duplicate is rejected as an ancestor
\* when its hash is one of the last 7 ancestors of the block, otherwise as
\* dangling when its parent is not among the last 7 ancestors or is the
\* block's own parent; it reaches header verification only with a parent
\* among the ancestors at depth 2 to 7.
C7_AncestorAndDanglingUncles ==
    uLooped =>
        \A i \in 1 .. Len(uTrace) :
            LET uncle == uBlock.Uncles[i]
            IN  /\ ~uIsDuplicate(i) =>
                      IF uncle.Hash \in uAncestorHashes
                      THEN /\ uTrace[i].kind = "ancestor"
                           /\ uResult = errUncleIsAncestor
                      ELSE IF uncle.ParentHash \notin uAncestorHashes
                              \/ uncle.ParentHash = uBlock.ParentHash
                      THEN /\ uTrace[i].kind = "dangling"
                           /\ uResult = errDanglingUncle
                      ELSE uTrace[i].kind = "verified"
                /\ uTrace[i].kind = "verified" =>
                      \E d \in 2 .. 7 : /\ uAncestor(d) # NoHeader
                                        /\ uAncestor(d).Hash = uncle.ParentHash

\* C7 witness: a block with two uncles, the first a child of the ancestor
\* at depth 7 that went through header verification, the second a child of
\* the block's own parent rejected as dangling.
C7_Witness ==
    /\ uLooped
    /\ Len(uTrace) = 2
    /\ uTrace[1].kind = "verified"
    /\ uBlock.Uncles[1].ParentHash = uAncestor(7).Hash
    /\ uTrace[2].kind = "dangling"
    /\ uBlock.Uncles[2].ParentHash = uBlock.ParentHash
    /\ uResult = errDanglingUncle

\* a call of VerifyUncles made outside the full fake mode has returned
uVerified ==
    /\ uPc = "done"
    /\ powMode # "fullFake"

\* C26: VerifyUncles returns the too-many-uncles error for a block with
\* more than 2 uncles having examined no uncle and made no chain lookup,
\* and returns no error for a block without uncles having made no chain
\* lookup; a block with 1 or 2 uncles has its parent looked up first.
C26_UncleCountCheckedFirst ==
    uVerified =>
        /\ Len(uBlock.Uncles) > maxUncles =>
              /\ uResult = errTooManyUncles
              /\ uTrace = <<>>
              /\ uLookups = <<>>
        /\ Len(uBlock.Uncles) = 0 =>
              /\ uResult = ErrNil
              /\ uLookups = <<>>
        /\ Len(uBlock.Uncles) \in 1 .. maxUncles =>
              /\ uResult # errTooManyUncles
              /\ uLookups # <<>>
              /\ uLookups[1] = Lookup("GetHeader", uBlock.ParentHash, uBlock.Number - 1)

\* C26 witness: a block of three uncles, each of which would pass every
\* check alone, rejected for their number with nothing looked up.
C26_Witness ==
    /\ uVerified
    /\ Len(uBlock.Uncles) = 3
    /\ {uBlock.Uncles[i].Hash : i \in 1 .. 3} = {32, 37, 53}
    /\ uAncestor(7) # NoHeader
    /\ uResult = errTooManyUncles
    /\ uTrace = <<>>
    /\ uLookups = <<>>

\* the ancestor of the verified block, among the last 7, that has the hash
uAncestorWithHash(hash) ==
    uAncestor(CHOOSE d \in 1 .. 7 : uAncestor(d) # NoHeader /\ uAncestor(d).Hash = hash)

\* C27: every uncle that passed the duplicate, ancestor and dangling checks
\* got the verdict of verifyHeader against its own parent with the uncle
\* flag and the seal flag both set: it is never rejected as a future block,
\* also with a time more than 15 seconds after now, and with an invalid
\* seal it is rejected and so is the block.
C27_UncleVerifiedAsUncleWithSeal ==
    uLooped =>
        \A i \in 1 .. Len(uTrace) :
            LET uncle == uBlock.Uncles[i]
            IN  uTrace[i].kind = "verified" =>
                  /\ uTrace[i].err =
                        verifyHeader(config, powMode, fakeFail, uncle,
                                     uAncestorWithHash(uncle.ParentHash),
                                     TRUE, TRUE, unixNow)
                  /\ uTrace[i].err # ErrFutureBlock
                  /\ uncle.Time > uAncestorWithHash(uncle.ParentHash).Time
                        => uTrace[i].err \in {ErrNil, errInvalidPoW}
                  /\ ~uncle.PowOK =>
                        /\ uTrace[i].err \notin {ErrNil, ErrFutureBlock}
                        /\ uResult = uTrace[i].err

\* C27 witness: a block of two uncles, the first timed 1000 seconds after
\* now and accepted, the second with an invalid seal and rejected for it.
C27_Witness ==
    /\ uLooped
    /\ Len(uTrace) = 2
    /\ uTrace[1].kind = "verified"
    /\ uBlock.Uncles[1].Time > unixNow + allowedFutureBlockTimeSeconds
    /\ uTrace[1].err = ErrNil
    /\ uTrace[2].kind = "verified"
    /\ ~uBlock.Uncles[2].PowOK
    /\ uTrace[2].err = errInvalidPoW
    /\ uResult = errInvalidPoW

----------------------------------------------------------------------------
(* Finalization and the reward streams.  Amounts are in units of 10^13 wei *)
(* (one ALT, 10^18 wei, is 100000 units): every division by 8 and by 32 of *)
(* a multiple of the block reward stays exact.  The state is a record of   *)
(* the balances and of the history log; each state.AddBalance and the      *)
(* assignment of header.Root append one event to the log.                  *)

\* blockReward := big.NewInt(1e+18), in units of 10^13 wei
blockReward == 100000

big8 == 8

big32 == 32

\* state.AddBalance(addr, amount), called by the function named by
AddBalance(db, by, addr, amount) ==
    [balance |-> [db.balance EXCEPT ![addr] = @ + amount],
     log |-> Append(db.log, [op |-> "AddBalance", by |-> by, addr |-> addr,
                             amount |-> amount])]

\* state.IntermediateRoot: the root is a function of the balances alone
IntermediateRoot(db) == db.balance

\* mutant: the divisors of the two shares are exchanged
uncleReward_Div32(header, uncle) ==
    ((uncle.Number + big8 - header.Number) * blockReward) \div big32

\* r of the loop of accumulateRewards when it is credited to uncle.Coinbase
uncleReward(header, uncle) ==
    ((uncle.Number + big8 - header.Number) * blockReward) \div big8

\* the participant's share before the cap, and the cap at totalReward
calculateIndividualReward(participant, totalReward) ==
    LET reward == (participant.Stake * participant.TransactionCount
                      * participant.UptimePercentage) \div 10000
    IN  IF reward > totalReward THEN totalReward ELSE reward

\* the list of participants the engine enumerates
getPoSAndPoTParticipants == <<>>

RECURSIVE PayParticipants(_, _, _, _)
\* the loop of distributePoSPoTRewards over the participants from the i-th on
PayParticipants(db, participants, reward, i) ==
    IF i > Len(participants) THEN db
    ELSE PayParticipants(
            AddBalance(db, "distributePoSPoTRewards", participants[i].Address,
                       calculateIndividualReward(participants[i], reward)),
            participants, reward, i + 1)

\* distributePoSPoTRewards(state, header, reward) ranging over participants
distributePoSPoTRewards(db, participants, reward) ==
    PayParticipants(db, participants, reward, 1)

RECURSIVE PayUncles(_, _, _, _, _)
\* the loop of accumulateRewards over the uncles from the i-th on: the state
\* and the coinbase's reward when the loop ends
PayUncles(db, header, uncles, i, reward) ==
    IF i > Len(uncles) THEN [db |-> db, reward |-> reward]
    ELSE PayUncles(AddBalance(db, "accumulateRewards", uncles[i].Coinbase,
                              uncleReward(header, uncles[i])),
                   header, uncles, i + 1, reward + (blockReward \div big32))

accumulateRewards(db, header, uncles, participants) ==
    LET powReward == blockReward
        posPotReward == blockReward
        paid == PayUncles(db, header, uncles, 1, powReward)
    IN  distributePoSPoTRewards(
            AddBalance(paid.db, "accumulateRewards", header.Coinbase, paid.reward),
            participants, posPotReward)

SetRootEvent == [op |-> "SetRoot", by |-> "Ethash.Finalize", addr |-> "", amount |-> 0]

\* Ethash.Finalize: the state and the header after the call
EthashFinalize(db, header, uncles, participants) ==
    LET after == accumulateRewards(db, header, uncles, participants)
    IN  [db |-> [after EXCEPT !.log = Append(@, SetRootEvent)],
         header |-> [header EXCEPT !.Root = IntermediateRoot(after)]]

\* EthashLachesis.Finalize; the three rewards are computed by functions of
\* package misc from the registries and are arguments here, as are the
\* validator addresses of the three registries
EthashLachesisFinalize(db, header, uncles, participants, addrs, rewards) ==
    LET base == EthashFinalize(db, header, uncles, participants)
        s1 == AddBalance(base.db, "EthashLachesis.Finalize", addrs[1], rewards[1])
        s2 == AddBalance(s1, "EthashLachesis.Finalize", addrs[2], rewards[2])
        s3 == AddBalance(s2, "EthashLachesis.Finalize", addrs[3], rewards[3])
    IN  [db |-> s3, header |-> base.header]

----------------------------------------------------------------------------
(* Inputs of finalization *)

Addresses == {"a", "b", "c"}

NoBalances == [a \in Addresses |-> 0]

\* the numbers of the uncles a block at height UncleBlockNumber may include:
\* the children of its ancestors at depth 7, 4 and 2
UncleNumbers == {UncleBlockNumber - 6, UncleBlockNumber - 3, UncleBlockNumber - 1}

FinUncleHeaders == [Number : UncleNumbers, Coinbase : Addresses]

FinUncleSeqs == UNION { [1 .. n -> FinUncleHeaders] : n \in 0 .. maxUncles }

FinHeaders == { [Number |-> UncleBlockNumber, Coinbase |-> a, Root |-> NoBalances] :
                a \in Addresses }

\* the validator addresses of the stake, transaction and trust registries
RegistryAddresses == [1 .. 3 -> {"a", "c"}]

\* the rewards misc.CalculatePoSReward, misc.CalculatePoTReward and
\* misc.CalculateTrustReward may return out of a base reward of one ALT
RegistryRewards == [1 .. 3 -> {0, blockReward}]

\* the largest number of participants of a generated hybrid distribution
MaxParticipants == 3

\* stake (units of 10^13 wei), transaction count, uptime percentage:
\* shares of 0, 500, 50000 and 200000 units before the cap
ParticipantProfiles ==
    { <<0, 5, 100>>, <<10000, 5, 100>>, <<10000, 1000, 50>>, <<20000, 1000, 100>> }

Participants ==
    { [Address |-> a, Stake |-> f[1], TransactionCount |-> f[2],
       UptimePercentage |-> f[3]] : a \in Addresses, f \in ParticipantProfiles }

ParticipantSeqs == UNION { [1 .. n -> Participants] : n \in 0 .. MaxParticipants }

----------------------------------------------------------------------------
(* Specification SpecFinalize: one finalization of a block by either engine *)

InitFinalize ==
    /\ config = UncleConfig
    /\ ethwStartDifficulty = MinimumDifficulty
    /\ FinOthersIdle
    /\ finPc = "idle"
    /\ finCall = "none"
    /\ finHeader = NoHeader
    /\ finUncles = <<>>
    /\ finParticipants = getPoSAndPoTParticipants
    /\ stateDB = NoBalances
    /\ finLog = <<>>

CallEthashFinalize ==
    /\ finPc = "idle"
    /\ \E header \in FinHeaders, uncles \in FinUncleSeqs :
          LET r == EthashFinalize([balance |-> stateDB, log |-> finLog], header, uncles,
                                  getPoSAndPoTParticipants)
          IN  /\ finHeader' = r.header
              /\ finUncles' = uncles
              /\ stateDB' = r.db.balance
              /\ finLog' = r.db.log
    /\ finCall' = "Ethash.Finalize"
    /\ finPc' = "done"
    /\ UNCHANGED <<finParticipants, FinOthers>>

CallEthashLachesisFinalize ==
    /\ finPc = "idle"
    /\ \E header \in FinHeaders, uncles \in FinUncleSeqs,
          addrs \in RegistryAddresses, rewards \in RegistryRewards :
          LET r == EthashLachesisFinalize([balance |-> stateDB, log |-> finLog], header,
                                          uncles, getPoSAndPoTParticipants, addrs, rewards)
          IN  /\ finHeader' = r.header
              /\ finUncles' = uncles
              /\ stateDB' = r.db.balance
              /\ finLog' = r.db.log
    /\ finCall' = "EthashLachesis.Finalize"
    /\ finPc' = "done"
    /\ UNCHANGED <<finParticipants, FinOthers>>

NextFinalize == CallEthashFinalize \/ CallEthashLachesisFinalize

SpecFinalize == InitFinalize /\ [][NextFinalize]_vars

----------------------------------------------------------------------------
(* Specification SpecHybrid: the hybrid stream, distributePoSPoTRewards,   *)
(* over a list of participants.  The engine's own enumeration,             *)
(* getPoSAndPoTParticipants, yields the empty list; the other lists are    *)
(* what the loop and calculateIndividualReward do once it yields any.      *)

InitHybrid == InitFinalize

CallDistributePoSPoTRewards ==
    /\ finPc = "idle"
    /\ \E participants \in ParticipantSeqs :
          LET db == distributePoSPoTRewards([balance |-> stateDB, log |-> finLog],
                                            participants, blockReward)
          IN  /\ finParticipants' = participants
              /\ stateDB' = db.balance
              /\ finLog' = db.log
    /\ finCall' = "distributePoSPoTRewards"
    /\ finPc' = "done"
    /\ UNCHANGED <<finHeader, finUncles, FinOthers>>

NextHybrid == CallDistributePoSPoTRewards

SpecHybrid == InitHybrid /\ [][NextHybrid]_vars

RECURSIVE finPaidBefore(_)
\* the sum of the amounts of the first i - 1 events of the log
finPaidBefore(i) == IF i <= 1 THEN 0 ELSE finPaidBefore(i - 1) + finLog[i - 1].amount

C9_RootAfterAllCredits ==
    finPc = "done" =>
        \A i \in 1 .. Len(finLog) : \A j \in i + 1 .. Len(finLog) :
            finLog[i].op = "SetRoot" => finLog[j].op # "AddBalance"

finIsPowCredit(e) == e.op = "AddBalance" /\ e.by = "accumulateRewards"

\* C10: for a block with k uncles the PoW stream credits, in order, each
\* uncle's beneficiary with (uncleNumber + 8 - blockNumber) * blockReward / 8
\* and then the block's beneficiary with blockReward + k * (blockReward / 32),
\* in integer division, and credits nothing else.
C10_PowStreamCredits ==
    finPc = "done" =>
        LET pow == SelectSeq(finLog, finIsPowCredit)
            k == Len(finUncles)
        IN  /\ Len(pow) = k + 1
            /\ \A i \in 1 .. k :
                  /\ pow[i].addr = finUncles[i].Coinbase
                  /\ pow[i].amount =
                        ((finUncles[i].Number + 8 - finHeader.Number) * 100000) \div 8
            /\ pow[k + 1].addr = finHeader.Coinbase
            /\ pow[k + 1].amount = 100000 + k * (100000 \div 32)

\* C10 witness: a finalized block with two uncles of different depth whose
\* beneficiaries and the block's are three different addresses.
C10_Witness ==
    /\ finPc = "done"
    /\ Len(finUncles) = 2
    /\ finUncles[1].Number = UncleBlockNumber - 6
    /\ finUncles[2].Number = UncleBlockNumber - 1
    /\ Cardinality({finUncles[1].Coinbase, finUncles[2].Coinbase, finHeader.Coinbase}) = 3
    /\ stateDB[finUncles[1].Coinbase] = 25000
    /\ stateDB[finUncles[2].Coinbase] = 87500
    /\ stateDB[finHeader.Coinbase] >= 106250

----------------------------------------------------------------------------
(* Further properties of one call of CalcDifficulty (specification SpecDiff) *)

\* the epochs in the order the protocol introduced them
dEpochs ==
    <<"frontier", "homestead", "byzantium", "constantinople", "muirGlacier",
      "london", "arrowGlacier", "grayGlacier", "ethPoW">>

\* the activation block of epoch number i, Nil when it is not scheduled
dActivation(i) == IF i = 1 THEN 0 ELSE config[dEpochs[i]]

\* the epochs activated at or before the block of the call
dActive == { i \in 1 .. Len(dEpochs) : dActivation(i) # Nil /\ dActivation(i) <= dNext }

\* the epoch with the highest activation block at or before the block of
\* the call; of epochs activated at one block the later one counts
dEpoch ==
    dEpochs[CHOOSE i \in dActive :
               \A j \in dActive : \/ dActivation(j) < dActivation(i)
                                  \/ (dActivation(j) = dActivation(i) /\ j <= i)]

\* the bomb delay of an epoch
dBombDelay(e) ==
    IF e = "byzantium" THEN 3000000
    ELSE IF e = "constantinople" THEN 5000000
    ELSE IF e = "muirGlacier" THEN 9000000
    ELSE IF e = "london" THEN 9700000
    ELSE IF e = "arrowGlacier" THEN 10700000
    ELSE IF e = "grayGlacier" THEN 11400000
    ELSE 0

dDelta == dTime - dParent.Time

dShift11 == dParent.Difficulty \div (2 ^ 11)

dPeriodCount(e) == Max(0, dNext - dBombDelay(e)) \div 100000

\* the bomb term the formulas are to add
dBombTerm(e) == IF dPeriodCount(e) <= 1 THEN 0 ELSE 2 ^ (dPeriodCount(e) - 2)

\* the value of an epoch's formula before the bomb term
dPreBomb(e) ==
    IF e = "frontier"
    THEN Max(131072, IF dDelta < 13 THEN dParent.Difficulty + dShift11
                     ELSE dParent.Difficulty - dShift11)
    ELSE IF e = "homestead"
    THEN Max(131072, dParent.Difficulty + dShift11 * Max(-99, 1 - (dDelta \div 10)))
    ELSE Max(131072, dParent.Difficulty
                       + dShift11 * Max(-99, (IF dParent.HasUncles THEN 2 ELSE 1)
                                                - (dDelta \div 9)))

\* the value of an epoch's rule for the arguments of the call
dEpochValue(e) ==
    IF e = "ethPoW"
    THEN IF dNext = config.ethPoW + 2048 THEN ethwStartDifficulty
         ELSE IF dNext = config.ethPoW THEN 1
         ELSE dPreBomb(e)
    ELSE IF e = "frontier" THEN Max(131072, dPreBomb(e) + dBombTerm(e))
    ELSE dPreBomb(e) + dBombTerm(e)

\* C13: in the Frontier, Homestead and bomb-delay formulas the bomb term,
\* what the result exceeds the floored adjusted difficulty by, is 0 when
\* periodCount <= 1 and 2^(periodCount-2) when periodCount >= 2, with
\* periodCount = floor(max(0, parent.number + 1 - bombDelay) / 100000) and
\* bombDelay = 0 for Frontier and Homestead.
C13_BombTerm ==
    (dPc = "done" /\ dEpoch # "ethPoW") =>
        dResult - dPreBomb(dEpoch) =
            (IF dPeriodCount(dEpoch) <= 1 THEN 0 ELSE 2 ^ (dPeriodCount(dEpoch) - 2))

\* C13 witness: a bomb-delay formula at the first block of its period 2,
\* where the term is 2^0.
C13_Witness ==
    /\ dPc = "done"
    /\ dEpoch = "byzantium"
    /\ dNext = 3000000 + 200000
    /\ dPeriodCount(dEpoch) = 2
    /\ dResult = dPreBomb(dEpoch) + 1

\* C14: under Frontier rules the result is the parent difficulty plus its
\* 11-bit right shift when the time delta is below 13 and minus it otherwise,
\* floored at the minimum, increased by the bomb term, floored at the minimum
\* again; for parent difficulty 1000, parent time 1000, parent number 1 and
\* time 2000 the decrease is 0 and the result is 1000 unless that is below
\* the minimum, and then the minimum.
C14_FrontierFormula ==
    (dPc = "done" /\ dEpoch = "frontier") =>
        /\ dResult =
              Max(131072,
                  Max(131072, IF dTime - dParent.Time < 13
                              THEN dParent.Difficulty + (dParent.Difficulty \div 2048)
                              ELSE dParent.Difficulty - (dParent.Difficulty \div 2048))
                     + dBombTerm("frontier"))
        /\ (dParent.Difficulty = 1000 /\ dParent.Time = ParentTime
               /\ dTime = ParentTime + 1000 /\ dParent.Number = 1) =>
              /\ dParent.Difficulty \div 2048 = 0
              /\ dResult = (IF 1000 < 131072 THEN 131072 ELSE 1000)

\* C14 witness: the call of the scenario.
C14_Witness ==
    /\ dPc = "done" /\ dEpoch = "frontier"
    /\ dParent.Difficulty = 1000 /\ dParent.Number = 1
    /\ dTime - dParent.Time = 1000
    /\ dResult = 131072

\* C15: under Homestead rules the result is max(minimum, parent difficulty +
\* (parent difficulty >> 11) * x) plus the bomb term with
\* x = max(-99, 1 - floor(time delta / 10)); for a time delta of 1000, x is
\* -99.
C15_HomesteadFormula ==
    (dPc = "done" /\ dEpoch = "homestead") =>
        LET x == Max(-99, 1 - ((dTime - dParent.Time) \div 10))
        IN  /\ dResult =
                  Max(131072, dParent.Difficulty + (dParent.Difficulty \div 2048) * x)
                     + dBombTerm("homestead")
            /\ dTime - dParent.Time = 1000 =>
                  /\ x = -99
                  /\ dResult - dBombTerm("homestead") =
                        Max(131072, dParent.Difficulty
                                      - 99 * (dParent.Difficulty \div 2048))

\* C15 witness: a Homestead call with a time delta of 1000 on a parent
\* difficulty of 4000000, lowered by 99 * 1953.
C15_Witness ==
    /\ dPc = "done" /\ dEpoch = "homestead"
    /\ dTime - dParent.Time = 1000
    /\ dParent.Difficulty = 4000000
    /\ dBombTerm("homestead") = 0
    /\ dResult = 3806653

----------------------------------------------------------------------------
(* Specification SpecCustom: one call of CalcCustomDifficulty *)

\* the factor arguments: all zero, those of TestCalcCustomDifficulty, and
\* two more
FactorTriples == { <<0, 0, 0>>, <<50, 30, 20>>, <<1, 1, 1>>, <<3, 0, 7>> }

\* the chain argument: a reader of the configured chain, or nil as in
\* TestCalcCustomDifficulty
ChainReaders == { NilReader, [nil |-> FALSE, Config |-> config] }

InitCustom ==
    /\ config \in ConfigSet
    /\ ethwStartDifficulty \in EthwStartCandidates
    /\ DiffIdle
    /\ EngineIdle
    /\ HdrIdle /\ BatchIdle /\ UncleIdle /\ FinIdle
    /\ CustomIdle /\ SealIdle /\ PosIdle /\ PotIdle /\ LateIdle

CallCalcCustomDifficulty ==
    /\ ccdPc = "idle"
    /\ \E t \in TimeDeltas, p \in ParentHeaders(config),
          f \in FactorTriples, r \in ChainReaders :
          /\ dTime' = p.Time + t
          /\ dParent' = p
          /\ ccdChain' = r
          /\ ccdFactors' = f
          /\ ccdResult' = CalcCustomDifficulty(r, p.Time + t, p, f[1], f[2], f[3])
    /\ ccdPc' = "done"
    /\ UNCHANGED <<config, ethwStartDifficulty, dPc, dResult, engineVars,
                   hdrVars, batchVars, uncleVars, finVars, sealVars, posVars, potVars,
                   lateVars>>

NextCustom == CallCalcCustomDifficulty

SpecCustom == InitCustom /\ [][NextCustom]_vars

\* the call returned a value
ccdReturned == ccdPc = "done" /\ ~ccdResult.panic

\* the base PoW difficulty for the arguments of the call
ccdBase == CalcDifficulty(config, dTime, dParent)

\* C12 (as stated): with all three factors 0 the hybrid difficulty equals
\* the base difficulty returned by CalcDifficulty for the same inputs.
C12_ZeroFactorsGiveBase ==
    (ccdReturned /\ ccdFactors = <<0, 0, 0>>) => ccdResult.value = ccdBase

\* C12 (amended): with all three factors 0 the hybrid difficulty equals the
\* base difficulty whenever that is at least the minimum difficulty, and is
\* the minimum difficulty when the base is below it.
C12_ZeroFactorsGiveFlooredBase ==
    (ccdReturned /\ ccdFactors = <<0, 0, 0>>) =>
        /\ ccdBase >= 131072 => ccdResult.value = ccdBase
        /\ ccdBase < 131072 => ccdResult.value = 131072

\* C12 witness: a call with zero factors on a base difficulty above the
\* minimum that came back unchanged.
C12_Witness ==
    /\ ccdReturned
    /\ ccdFactors = <<0, 0, 0>>
    /\ ccdBase > 131072
    /\ ccdResult.value = ccdBase

\* C16: CalcCustomDifficulty on a Frontier-epoch parent with difficulty 1000,
\* time 1000 and number 1, candidate time 2000 and factors 50, 30, 20
\* returns 1600.
C16_TestExpects1600 ==
    (/\ ccdPc = "done"
     /\ dParent.Difficulty = 1000 /\ dParent.Time = ParentTime /\ dParent.Number = 1
     /\ dTime - dParent.Time = 1000
     /\ ccdFactors = <<50, 30, 20>>
     /\ ccdChain.nil \/ dEpoch = "frontier")
        => (~ccdResult.panic /\ ccdResult.value = 1600)

----------------------------------------------------------------------------
(* Specification SpecSeal: one call of Ethash.verifySeal *)

\* the width of the hash result in bits, scaled down from 256
SealBits == 4

two256 == 2 ^ SealBits

\* the look-ups of the full-DAG branch and of the light branch
fullLookups == << "dataset", "hashimotoFull" >>

lightLookups(mode) ==
    << "cache", IF mode = "test" THEN "size 32*1024" ELSE "datasetSize",
       "hashimotoLight" >>

\* mutant: the target is compared before the mix digest
sealChecks_TargetFirst(mode, header, fulldag, generated, hash) ==
    IF header.Difficulty <= 0
    THEN [err |-> errInvalidDifficulty, trace |-> <<>>]
    ELSE
    LET full == IF fulldag /\ generated THEN fullLookups ELSE <<>>
        dataset == IF fulldag /\ ~generated THEN << "dataset" >> ELSE <<>>
        light == IF ~(fulldag /\ generated) THEN lightLookups(mode) ELSE <<>>
        target == two256 \div header.Difficulty
    IN  [err |-> IF hash.result > target THEN errInvalidPoW
                 ELSE IF header.MixDigest # hash.digest THEN errInvalidMixDigest
                 ELSE ErrNil,
         trace |-> full \o dataset \o light]

\* verifySeal from the difficulty check on, on an engine in mode `mode`
sealChecks(mode, header, fulldag, generated, hash) ==
    IF header.Difficulty <= 0
    THEN [err |-> errInvalidDifficulty, trace |-> <<>>]
    ELSE
    LET full == IF fulldag /\ generated THEN fullLookups ELSE <<>>
        dataset == IF fulldag /\ ~generated THEN << "dataset" >> ELSE <<>>
        light == IF ~(fulldag /\ generated) THEN lightLookups(mode) ELSE <<>>
        target == two256 \div header.Difficulty
    IN  [err |-> IF header.MixDigest # hash.digest THEN errInvalidMixDigest
                 ELSE IF hash.result > target THEN errInvalidPoW
                 ELSE ErrNil,
         trace |-> full \o dataset \o light]

\* verifySeal on the shared engine, which has no shared engine of its own
sharedVerifySeal(shared, header, fulldag, generated, hash) ==
    IF shared.PowMode = "fake" \/ shared.PowMode = "fullFake"
    THEN [err |-> IF shared.fakeFail = header.Number THEN errInvalidPoW ELSE ErrNil,
          trace |-> <<>>]
    ELSE sealChecks(shared.PowMode, header, fulldag, generated, hash)

\* Ethash.verifySeal with the look-ups it makes
verifySealLookups(mode, ff, shared, header, fulldag, generated, hash) ==
    IF mode = "fake" \/ mode = "fullFake"
    THEN [err |-> IF ff = header.Number THEN errInvalidPoW ELSE ErrNil,
          trace |-> <<>>]
    ELSE IF ~shared.nil
    THEN sharedVerifySeal(shared, header, fulldag, generated, hash)
    ELSE sealChecks(mode, header, fulldag, generated, hash)

\* the shared engine: none, or one in normal, test or fake mode
SharedEngines ==
    { NoEngine }
    \cup { [nil |-> FALSE, PowMode |-> m, fakeFail |-> 6] : m \in {"normal", "test", "fake"} }

\* header difficulties: non-positive ones, 1..3, and the ones around the
\* point where the target becomes 0
SealDifficulties == { -1, 0, 1, 2, 3, two256, two256 + 1 }

SealHeaders ==
    { [Hash |-> 30, Number |-> n, Difficulty |-> d, MixDigest |-> m] :
         n \in {5, 6}, d \in SealDifficulties, m \in {0, 1} }

\* what hashimoto may return: the result is a SealBits-wide number
SealHashes == [digest : {0, 1}, result : 0 .. two256 - 1]

InitSeal ==
    /\ powMode \in {"normal", "test", "fake", "fullFake"}
    /\ fakeFail \in {0, 6}
    /\ chain = {}
    /\ unixNow = 0
    /\ config = Cfg(Nil, Nil, Nil, Nil, Nil, Nil, Nil, Nil)
    /\ ethwStartDifficulty = MinimumDifficulty
    /\ DiffIdle
    /\ HdrIdle /\ BatchIdle /\ UncleIdle /\ FinIdle
    /\ CustomIdle /\ PosIdle /\ PotIdle /\ LateIdle
    /\ sealPc = "idle"
    /\ sealShared \in SharedEngines
    /\ sealHeader \in SealHeaders
    /\ sealFulldag \in BOOLEAN
    /\ sealGenerated \in BOOLEAN
    /\ sealHash \in SealHashes
    /\ sealResult = [err |-> "nil", trace |-> <<>>]

CallVerifySeal ==
    /\ sealPc = "idle"
    /\ sealResult' = verifySealLookups(powMode, fakeFail, sealShared, sealHeader,
                                       sealFulldag, sealGenerated, sealHash)
    /\ sealPc' = "done"
    /\ UNCHANGED <<sealShared, sealHeader, sealFulldag, sealGenerated, sealHash>>
    /\ UNCHANGED <<diffVars, engineVars, hdrVars, batchVars, uncleVars, finVars,
                   customVars, posVars, potVars, lateVars>>

NextSeal == CallVerifySeal

SpecSeal == InitSeal /\ [][NextSeal]_vars

\* the mode of the engine that makes the check
sealMode ==
    IF powMode \in {"fake", "fullFake"} \/ sealShared.nil
    THEN powMode
    ELSE sealShared.PowMode

\* C18: outside the test and fake modes verifySeal returns InvalidDifficulty
\* for a header of difficulty <= 0 without consulting the dataset or the
\* cache; otherwise InvalidMixDigest when the computed digest differs from
\* the header's; otherwise InvalidPoW exactly when the computed result is
\* greater than floor(2^256 / difficulty); and nil in every remaining case.
C18_SealOutcome ==
    (sealPc = "done" /\ sealMode = "normal") =>
        IF sealHeader.Difficulty <= 0
        THEN sealResult.err = errInvalidDifficulty /\ sealResult.trace = <<>>
        ELSE IF sealHash.digest # sealHeader.MixDigest
        THEN sealResult.err = errInvalidMixDigest
        ELSE IF sealHash.result > (2 ^ SealBits) \div sealHeader.Difficulty
        THEN sealResult.err = errInvalidPoW
        ELSE sealResult.err = ErrNil

\* C18 witness: in normal mode a header that misses both the digest and the
\* target was rejected for its digest, after the cache was consulted.
C18_Witness ==
    /\ sealPc = "done" /\ sealMode = "normal"
    /\ sealHeader.Difficulty = 3
    /\ sealHash.digest # sealHeader.MixDigest
    /\ sealHash.result > (2 ^ SealBits) \div 3
    /\ sealResult.err = errInvalidMixDigest
    /\ sealResult.trace # <<>>

----------------------------------------------------------------------------
(* Specification SpecPoS: the stake registry under a sequence of calls of  *)
(* UpdateValidator.  A *big.Int is an object with an identity: bigInts[o]  *)
(* is the value object o holds, and a record or a caller that holds o sees *)
(* every change made to it.                                                *)

\* the object NewPoS creates for pos.TotalStake
TotalStake == 0

\* the objects the callers hold and pass as the argument stake
CallerInts == {1, 2}

\* the values the callers' objects start with
CallerAmounts == {0, 3, 5}

PosAddresses == {"a", "b"}

PosBlockNumbers == {7, 9}

\* the calls made in one behaviour
MaxPosCalls == 4

\* an address without an entry in pos.Validators
NoValidator == [exists |-> FALSE]

\* mutant: an update of an existing validator replaces its stake
UpdateValidator_Overwrites(pos, address, stake, blockNumber) ==
    LET validator == pos.Validators[address]
    IN  IF ~validator.exists
        THEN [Validators |->
                 [pos.Validators EXCEPT ![address] =
                     [exists |-> TRUE, Address |-> address, Stake |-> stake,
                      IsValidator |-> TRUE, LastReward |-> blockNumber]],
              bigInts |->
                 [pos.bigInts EXCEPT ![TotalStake] =
                     pos.bigInts[TotalStake] + pos.bigInts[stake]]]
        ELSE [Validators |->
                 [pos.Validators EXCEPT ![address].Stake = stake,
                                        ![address].LastReward = blockNumber],
              bigInts |-> pos.bigInts]

\* PoS.UpdateValidator on the registry pos = [Validators, bigInts].  A new
\* validator's Stake is the caller's object itself; x.Add(x, y) stores
\* x + y in the object x, read before it is written (x and y may be one
\* object).
UpdateValidator(pos, address, stake, blockNumber) ==
    LET validator == pos.Validators[address]
    IN  IF ~validator.exists
        THEN [Validators |->
                 [pos.Validators EXCEPT ![address] =
                     [exists |-> TRUE, Address |-> address, Stake |-> stake,
                      IsValidator |-> TRUE, LastReward |-> blockNumber]],
              bigInts |->
                 [pos.bigInts EXCEPT ![TotalStake] =
                     pos.bigInts[TotalStake] + pos.bigInts[stake]]]
        ELSE [Validators |->
                 [pos.Validators EXCEPT ![address].LastReward = blockNumber],
              bigInts |->
                 [pos.bigInts EXCEPT ![validator.Stake] =
                     pos.bigInts[validator.Stake] + pos.bigInts[stake]]]

\* what an observer reads off the registry and the callers' objects
PosView(vals, ints) ==
    [stake  |-> [a \in PosAddresses |->
                    IF vals[a].exists THEN ints[vals[a].Stake] ELSE Nil],
     last   |-> [a \in PosAddresses |->
                    IF vals[a].exists THEN vals[a].LastReward ELSE Nil],
     active |-> [a \in PosAddresses |-> vals[a].exists /\ vals[a].IsValidator],
     total  |-> ints[TotalStake],
     held   |-> [o \in CallerInts |-> ints[o]]]

\* NewPoS, and callers holding their amounts
InitPoS ==
    /\ config = Cfg(Nil, Nil, Nil, Nil, Nil, Nil, Nil, Nil)
    /\ ethwStartDifficulty = MinimumDifficulty
    /\ DiffIdle /\ EngineIdle
    /\ HdrIdle /\ BatchIdle /\ UncleIdle /\ FinIdle
    /\ CustomIdle /\ SealIdle /\ PotIdle /\ LateIdle
    /\ \E held \in [CallerInts -> CallerAmounts] :
          bigInts = [o \in {TotalStake} \cup CallerInts |->
                        IF o = TotalStake THEN 0 ELSE held[o]]
    /\ Validators = [a \in PosAddresses |-> NoValidator]
    /\ posCalls = <<>>
    /\ posViews = << PosView(Validators, bigInts) >>

CallUpdateValidator ==
    /\ Len(posCalls) < MaxPosCalls
    /\ \E address \in PosAddresses, stake \in CallerInts,
          blockNumber \in PosBlockNumbers :
          LET pos == UpdateValidator([Validators |-> Validators, bigInts |-> bigInts],
                                     address, stake, blockNumber)
          IN  /\ Validators' = pos.Validators
              /\ bigInts' = pos.bigInts
              /\ posCalls' = Append(posCalls,
                                    [address |-> address, stake |-> stake,
                                     amount |-> bigInts[stake],
                                     blockNumber |-> blockNumber])
              /\ posViews' = Append(posViews, PosView(pos.Validators, pos.bigInts))
    /\ UNCHANGED <<diffVars, engineVars, hdrVars, batchVars, uncleVars, finVars,
                   customVars, sealVars, potVars, lateVars>>

NextPoS == CallUpdateValidator

SpecPoS == InitPoS /\ [][NextPoS]_vars

\* the calls made for an address, by their place in the history
posCallsFor(a) == { i \in 1 .. Len(posCalls) : posCalls[i].address = a }

RECURSIVE posSum(_, _)
\* the sum of the amounts passed in the calls for an address up to call n
posSum(a, n) ==
    IF n = 0 THEN 0
    ELSE posSum(a, n - 1) + (IF posCalls[n].address = a THEN posCalls[n].amount ELSE 0)

\* C11: two successive calls of the stake update for one address, each with
\* amount 0, leave TotalStake and that validator's recorded stake as they
\* were before the two calls (stake 0 for an address unseen before them).
C11_ZeroUpdatesChangeNothing ==
    \A i \in 1 .. Len(posCalls) - 1 :
        (/\ posCalls[i].address = posCalls[i + 1].address
         /\ posCalls[i].amount = 0
         /\ posCalls[i + 1].amount = 0) =>
            LET a == posCalls[i].address
                before == posViews[i]
                after == posViews[i + 2]
            IN  /\ after.total = before.total
                /\ after.stake[a] = (IF before.stake[a] = Nil THEN 0 ELSE before.stake[a])

\* C11 witness: two successive zero updates have been made for a validator
\* that held a positive stake, which it still holds.
C11_Witness ==
    \E i \in 1 .. Len(posCalls) - 1 :
        /\ posCalls[i].address = posCalls[i + 1].address
        /\ posCalls[i].amount = 0 /\ posCalls[i + 1].amount = 0
        /\ posViews[i].stake[posCalls[i].address] # Nil
        /\ posViews[i].stake[posCalls[i].address] > 0
        /\ posViews[i + 2].stake[posCalls[i].address]
              = posViews[i].stake[posCalls[i].address]
        /\ posViews[i + 2].total = posViews[i].total

\* C19: after any sequence of stake updates the stake recorded for an
\* address is the sum of the amounts passed in the updates for it, the
\* validator is active from its first update on, and its last-reward block
\* is the block number of the most recent update for it.
C19_StakeIsSumOfAmounts ==
    \A a \in PosAddresses :
        posCallsFor(a) # {} =>
            LET view == posViews[Len(posViews)]
                latest == CHOOSE i \in posCallsFor(a) : \A j \in posCallsFor(a) : j <= i
            IN  /\ view.stake[a] = posSum(a, Len(posCalls))
                /\ view.active[a]
                /\ view.last[a] = posCalls[latest].blockNumber

\* C28: a stake update for an address leaves the stake recorded for every
\* other address and the amount held in every caller's object as they were
\* before the call.
C28_UpdateTouchesOnlyItsAddress ==
    \A i \in 1 .. Len(posCalls) :
        LET before == posViews[i]
            after == posViews[i + 1]
        IN  /\ \A b \in PosAddresses \ {posCalls[i].address} :
                  after.stake[b] = before.stake[b]
            /\ \A o \in CallerInts : after.held[o] = before.held[o]

RECURSIVE posStakeSum(_, _)
\* the sum of the stakes recorded for the validators among the addresses
posStakeSum(view, addresses) ==
    IF addresses = {} THEN 0
    ELSE LET a == CHOOSE x \in addresses : TRUE
         IN  (IF view.stake[a] = Nil THEN 0 ELSE view.stake[a])
                + posStakeSum(view, addresses \ {a})

\* C33: in every state of the stake registry TotalStake equals the sum of
\* the stakes recorded for all validators.
C33_TotalStakeIsSumOfStakes ==
    LET view == PosView(Validators, bigInts)
    IN  view.total = posStakeSum(view, PosAddresses)

----------------------------------------------------------------------------
(* Specification SpecPoT: the transaction registry under a sequence of     *)
(* calls of RecordTransaction                                              *)

PotAddresses == {"a", "b"}

PotBlockNumbers == {7, 9}

MaxPotCalls == 5

\* an address without an entry in pot.TransactionRecords
NoRecord == [exists |-> FALSE]

\* mutant: a later call sets the count as the first call does
RecordTransaction_CountReset(pot, address, blockNumber) ==
    LET record == pot.TransactionRecords[address]
    IN  IF ~record.exists
        THEN [TransactionRecords |->
                 [pot.TransactionRecords EXCEPT ![address] =
                     [exists |-> TRUE, Address |-> address, TransactionCount |-> 1,
                      LastTransaction |-> blockNumber]],
              TotalTransactions |-> pot.TotalTransactions + 1]
        ELSE [TransactionRecords |->
                 [pot.TransactionRecords EXCEPT
                     ![address].TransactionCount = 1,
                     ![address].LastTransaction = blockNumber],
              TotalTransactions |-> pot.TotalTransactions]

\* PoT.RecordTransaction on pot = [TransactionRecords, TotalTransactions]
RecordTransaction(pot, address, blockNumber) ==
    LET record == pot.TransactionRecords[address]
    IN  IF ~record.exists
        THEN [TransactionRecords |->
                 [pot.TransactionRecords EXCEPT ![address] =
                     [exists |-> TRUE, Address |-> address, TransactionCount |-> 1,
                      LastTransaction |-> blockNumber]],
              TotalTransactions |-> pot.TotalTransactions + 1]
        ELSE [TransactionRecords |->
                 [pot.TransactionRecords EXCEPT
                     ![address].TransactionCount = record.TransactionCount + 1,
                     ![address].LastTransaction = blockNumber],
              TotalTransactions |-> pot.TotalTransactions]

\* NewPoT
InitPoT ==
    /\ config = Cfg(Nil, Nil, Nil, Nil, Nil, Nil, Nil, Nil)
    /\ ethwStartDifficulty = MinimumDifficulty
    /\ DiffIdle /\ EngineIdle
    /\ HdrIdle /\ BatchIdle /\ UncleIdle /\ FinIdle
    /\ CustomIdle /\ SealIdle /\ PosIdle /\ LateIdle
    /\ TransactionRecords = [a \in PotAddresses |-> NoRecord]
    /\ TotalTransactions = 0
    /\ potCalls = <<>>

CallRecordTransaction ==
    /\ Len(potCalls) < MaxPotCalls
    /\ \E address \in PotAddresses, blockNumber \in PotBlockNumbers :
          LET pot == RecordTransaction([TransactionRecords |-> TransactionRecords,
                                        TotalTransactions |-> TotalTransactions],
                                       address, blockNumber)
          IN  /\ TransactionRecords' = pot.TransactionRecords
              /\ TotalTransactions' = pot.TotalTransactions
              /\ potCalls' = Append(potCalls,
                                    [address |-> address, blockNumber |-> blockNumber])
    /\ UNCHANGED <<diffVars, engineVars, hdrVars, batchVars, uncleVars, finVars,
                   customVars, sealVars, posVars, lateVars>>

NextPoT == CallRecordTransaction

SpecPoT == InitPoT /\ [][NextPoT]_vars

\* the calls made for an address, by their place in the history
potCallsFor(a) == { i \in 1 .. Len(potCalls) : potCalls[i].address = a }

\* C20: after any sequence of calls of RecordTransaction the count recorded
\* for an address is the number of calls made for it, and its last
\* transaction block is the block number of the most recent call for it; an
\* address never called for has no record.
C20_CountIsNumberOfCalls ==
    \A a \in PotAddresses :
        IF potCallsFor(a) = {}
        THEN ~TransactionRecords[a].exists
        ELSE LET latest == CHOOSE i \in potCallsFor(a) : \A j \in potCallsFor(a) : j <= i
             IN  /\ TransactionRecords[a].exists
                 /\ TransactionRecords[a].TransactionCount = Cardinality(potCallsFor(a))
                 /\ TransactionRecords[a].LastTransaction = potCalls[latest].blockNumber

\* C20 witness: an address was called for three times, the last time with a
\* block number below that of the call before, and holds count 3 and the
\* latest block number.
C20_Witness ==
    /\ Len(potCalls) = 3
    /\ \A i \in 1 .. 3 : potCalls[i].address = "a"
    /\ potCalls[2].blockNumber = 9 /\ potCalls[3].blockNumber = 7
    /\ TransactionRecords["a"].TransactionCount = 3
    /\ TransactionRecords["a"].LastTransaction = 7

RECURSIVE potCountSum(_, _)
\* the sum of the transaction counts of the records among the addresses
potCountSum(records, addresses) ==
    IF addresses = {} THEN 0
    ELSE LET a == CHOOSE x \in addresses : TRUE
         IN  (IF records[a].exists THEN records[a].TransactionCount ELSE 0)
                + potCountSum(records, addresses \ {a})

\* C34: in every state of the transaction registry TotalTransactions equals
\* the sum of the transaction counts of all records, which is the number of
\* calls of RecordTransaction made.
C34_TotalIsSumOfCounts ==
    /\ TotalTransactions = potCountSum(TransactionRecords, PotAddresses)
    /\ TotalTransactions = Len(potCalls)

----------------------------------------------------------------------------
(* Further properties of one call of CalcCustomDifficulty (SpecCustom) *)

RECURSIVE ccdGcd(_, _)
ccdGcd(m, n) == IF n = 0 THEN m ELSE ccdGcd(n, m % n)

\* floor(base * w * f / 200), with the fraction w * f / 200 in lowest terms
ccdTerm(base, w, f) ==
    LET g == ccdGcd(w * f, 200)
    IN  (base * ((w * f) \div g)) \div (200 \div g)

\* the sum of the three terms, each truncated by itself
ccdTerms ==
    ccdTerm(ccdBase, 50, ccdFactors[1]) + ccdTerm(ccdBase, 30, ccdFactors[2])
       + ccdTerm(ccdBase, 20, ccdFactors[3])

\* the three products summed and truncated once
ccdTermsJoint ==
    LET m == 50 * ccdFactors[1] + 30 * ccdFactors[2] + 20 * ccdFactors[3]
        g == ccdGcd(m, 200)
    IN  (ccdBase * (m \div g)) \div (200 \div g)

----------------------------------------------------------------------------
(* Specification SpecCalculators: the calculators of one bomb delay, the   *)
(* big-integer one and the 256-bit one, called on the same arguments       *)

BombDelays ==
    { BombDelayByzantium, BombDelayConstantinople, BombDelayEip2384,
      BombDelayEip3554, BombDelayEip4345, BombDelayEip5133 }

\* the bomb delays the calculators are made with: those of the protocol's
\* six calculators, and no delay at all
CalculatorDelays == BombDelays \cup {0}

\* the parents that keep the bomb term within TLC's integers
CalculatorParents(bombDelay) ==
    { p \in AllParentHeaders :
         Max(0, p.Number + 1 - bombDelay) \div expDiffPeriod <= MaxBombPeriods }

InitCalculators ==
    /\ config = Cfg(Nil, Nil, Nil, Nil, Nil, Nil, Nil, Nil)
    /\ ethwStartDifficulty = MinimumDifficulty
    /\ DiffIdle /\ EngineIdle
    /\ HdrIdle /\ BatchIdle /\ UncleIdle /\ FinIdle
    /\ ExtraIdle

CallCalculators ==
    /\ calcPc = "idle"
    /\ \E bombDelay \in CalculatorDelays :
       \E t \in TimeDeltas, p \in CalculatorParents(bombDelay) :
          /\ calcDelay' = bombDelay
          /\ dTime' = p.Time + t
          /\ dParent' = p
          /\ calcBig' =
                [fakeBlockNumber |-> delayedBlockNumber(bombDelay, p),
                 periodCount |-> delayedBlockNumber(bombDelay, p) \div expDiffPeriod,
                 value |-> makeDifficultyCalculator(bombDelay, p.Time + t, p)]
          /\ calcU256' =
                [bomb |-> bombU256(bombDelay, p),
                 value |-> MakeDifficultyCalculatorU256(bombDelay, p.Time + t, p)]
    /\ calcPc' = "done"
    /\ UNCHANGED <<config, ethwStartDifficulty, dPc, dResult, engineVars, hdrVars,
                   batchVars, uncleVars, finVars, customVars, sealVars, posVars,
                   potVars, trustVars, apiVars>>

\* the Frontier and the Homestead rule, big-integer and 256-bit, are
\* called on one time and parent
CallUndelayedCalculators ==
    /\ calcPc = "idle"
    /\ \E t \in TimeDeltas, p \in CalculatorParents(0) :
          /\ dTime' = p.Time + t
          /\ dParent' = p
          /\ calcBig' =
                [frontier |-> calcDifficultyFrontier(p.Time + t, p),
                 homestead |-> calcDifficultyHomestead(p.Time + t, p)]
          /\ calcU256' =
                [frontier |-> CalcDifficultyFrontierU256(p.Time + t, p),
                 homestead |-> CalcDifficultyHomesteadU256(p.Time + t, p)]
    /\ calcPc' = "undelayed"
    /\ UNCHANGED <<config, ethwStartDifficulty, dPc, dResult, calcDelay, engineVars,
                   hdrVars, batchVars, uncleVars, finVars, customVars, sealVars,
                   posVars, potVars, trustVars, apiVars>>

NextCalculators == CallCalculators \/ CallUndelayedCalculators

SpecCalculators == InitCalculators /\ [][NextCalculators]_vars

\* C25: in every bomb-delay formula, when parent.number < bombDelay - 1 the
\* delayed block number used for the bomb is 0, neither negative nor
\* wrapped, periodCount is 0 and no bomb term is added: the result is the
\* floored adjusted difficulty.
C25_DelayedNumberClamped ==
    (calcPc = "done" /\ dParent.Number < calcDelay - 1) =>
        /\ calcBig.fakeBlockNumber = 0
        /\ calcBig.periodCount = 0
        /\ calcBig.value = dPreBomb("byzantium")
        /\ ~calcU256.bomb.reached
        /\ calcU256.bomb.fakeBlockNumber = 0
        /\ calcU256.bomb.term = 0
        /\ calcU256.value = dPreBomb("byzantium")

\* C25 witness: the calculators of bomb delay 5000000 were called on a
\* parent more than two periods below the delay, and on the last parent
\* below bombDelay - 1.
C25_Witness ==
    /\ calcPc = "done"
    /\ \/ calcDelay = 5000000 /\ dParent.Number = 3000000 + 199999
       \/ calcDelay = 3000000 /\ dParent.Number = 3000000 - 2
    /\ calcBig.fakeBlockNumber = 0
    /\ calcBig.value = dPreBomb("byzantium")
    /\ calcU256.value = calcBig.value

\* C35: for every parent and every time after the parent's, the 256-bit
\* functions return what the big-integer functions return: the Frontier
\* rule, the Homestead rule, and the calculator made with any bomb delay.
C35_U256EqualsBig ==
    dTime > dParent.Time =>
        /\ calcPc = "undelayed" =>
              /\ calcU256.frontier = calcBig.frontier
              /\ calcU256.homestead = calcBig.homestead
        /\ calcPc = "done" => calcU256.value = calcBig.value

----------------------------------------------------------------------------
(* Specification SpecTrust: the trust registry under a sequence of calls   *)
(* of UpdateTrust                                                          *)

TrustAddresses == {"a", "b"}

\* uptime is a uint64: values within the percentage range and one beyond it
TrustUptimes == {0, 40, 100, 150}

TrustBlockNumbers == {7, 9}

MaxTrustCalls == 3

\* an address without an entry in trust.TrustRecords
NoTrustRecord == [exists |-> FALSE]

\* mutant: a later update adds the uptime to the recorded one
UpdateTrust_Accumulates(records, address, uptime, blockNumber) ==
    LET record == records[address]
    IN  IF ~record.exists
        THEN [records EXCEPT ![address] =
                 [exists |-> TRUE, Address |-> address, Uptime |-> uptime,
                  LastUpdate |-> blockNumber]]
        ELSE [records EXCEPT ![address].Uptime = record.Uptime + uptime,
                             ![address].LastUpdate = blockNumber]

\* ProofOfTrust.UpdateTrust on trust.TrustRecords
UpdateTrust(records, address, uptime, blockNumber) ==
    LET record == records[address]
    IN  IF ~record.exists
        THEN [records EXCEPT ![address] =
                 [exists |-> TRUE, Address |-> address, Uptime |-> uptime,
                  LastUpdate |-> blockNumber]]
        ELSE [records EXCEPT ![address].Uptime = uptime,
                             ![address].LastUpdate = blockNumber]

\* NewProofOfTrust
InitTrust ==
    /\ config = Cfg(Nil, Nil, Nil, Nil, Nil, Nil, Nil, Nil)
    /\ ethwStartDifficulty = MinimumDifficulty
    /\ DiffIdle /\ EngineIdle
    /\ HdrIdle /\ BatchIdle /\ UncleIdle /\ FinIdle
    /\ CustomIdle /\ SealIdle /\ PosIdle /\ PotIdle /\ CalcIdle /\ ApiIdle
    /\ TrustRecords = [a \in TrustAddresses |-> NoTrustRecord]
    /\ trustCalls = <<>>

CallUpdateTrust ==
    /\ Len(trustCalls) < MaxTrustCalls
    /\ \E address \in TrustAddresses, uptime \in TrustUptimes,
          blockNumber \in TrustBlockNumbers :
          /\ TrustRecords' = UpdateTrust(TrustRecords, address, uptime, blockNumber)
          /\ trustCalls' = Append(trustCalls,
                                  [address |-> address, uptime |-> uptime,
                                   blockNumber |-> blockNumber])
    /\ UNCHANGED <<diffVars, engineVars, hdrVars, batchVars, uncleVars, finVars,
                   customVars, sealVars, posVars, potVars, calcVars, apiVars>>

NextTrust == CallUpdateTrust

SpecTrust == InitTrust /\ [][NextTrust]_vars

\* the calls made for an address, by their place in the history
trustCallsFor(a) == { i \in 1 .. Len(trustCalls) : trustCalls[i].address = a }

\* C21: after UpdateTrust(a, u, n) the record of a holds uptime u and
\* last-update block n whatever it held before; the record of an address
\* depends only on the most recent update for it (the updates for other
\* addresses leave it alone), and an address never updated has no record.
C21_LastWriteWins ==
    \A a \in TrustAddresses :
        IF trustCallsFor(a) = {}
        THEN ~TrustRecords[a].exists
        ELSE LET latest == CHOOSE i \in trustCallsFor(a) :
                              \A j \in trustCallsFor(a) : j <= i
             IN  /\ TrustRecords[a].exists
                 /\ TrustRecords[a].Uptime = trustCalls[latest].uptime
                 /\ TrustRecords[a].LastUpdate = trustCalls[latest].blockNumber

\* C21 witness: an address updated with uptime 100 at block 9, then with
\* uptime 40 at block 7, then an update for the other address; its record
\* holds 40 and 7.
C21_Witness ==
    /\ Len(trustCalls) = 3
    /\ trustCalls[1] = [address |-> "a", uptime |-> 100, blockNumber |-> 9]
    /\ trustCalls[2] = [address |-> "a", uptime |-> 40, blockNumber |-> 7]
    /\ trustCalls[3].address = "b"
    /\ TrustRecords["a"].Uptime = 40
    /\ TrustRecords["a"].LastUpdate = 7

\* C29: every trust record's uptime lies between 0 and 100 inclusive,
\* whatever uptime values were passed to UpdateTrust.
C29_UptimeIsAPercentage ==
    \A a \in TrustAddresses :
        TrustRecords[a].exists =>
            (0 <= TrustRecords[a].Uptime /\ TrustRecords[a].Uptime <= 100)

----------------------------------------------------------------------------
(* The remote-mining API: API.SubmitWork and API.SubmitHashrate hand a     *)
(* message to the remote sealer over the unbuffered channels submitWorkCh  *)
(* and submitRateCh, or give up when remote.exitCh is closed, and then     *)
(* wait for the answer on the channel of capacity 1 they put in the        *)
(* message.  The sealer's loop is not part of the sources: it is modelled  *)
(* from the specification, as an engine that processes each submission it  *)
(* has received and raises the shutdown signal when it stops.              *)

\* the largest number of concurrent API callers
MaxCallers == 2

Callers == 1 .. MaxCallers

ApiMethods == {"SubmitWork", "SubmitHashrate"}

errInvalidSealResult == "invalid or stale proof-of-work solution"

NoResult == [value |-> FALSE, via |-> "none"]

\* mutant: the closing of exitCh is never seen by the select
exitReady_Never == FALSE

\* case <-api.ethash.ethash.remote.exitCh is ready: the channel is closed
exitReady == exitCh = "closed"

\* err := <-errc; return err == nil, and <-done; return true
submitResult(method, reply) ==
    IF method = "SubmitWork" THEN reply = ErrNil ELSE TRUE

InitApi ==
    /\ config = Cfg(Nil, Nil, Nil, Nil, Nil, Nil, Nil, Nil)
    /\ ethwStartDifficulty = MinimumDifficulty
    /\ DiffIdle /\ EngineIdle
    /\ HdrIdle /\ BatchIdle /\ UncleIdle /\ FinIdle
    /\ CustomIdle /\ SealIdle /\ PosIdle /\ PotIdle /\ CalcIdle /\ TrustIdle
    /\ remote \in {"nil", "sealer"}
    /\ exitCh = "open"
    /\ sealerPc = (IF remote = "nil" THEN "stopped" ELSE "loop")
    /\ apiPc = [c \in Callers |-> "idle"]
    /\ apiCall = [c \in Callers |-> "none"]
    /\ apiReply = [c \in Callers |-> <<>>]
    /\ apiResult = [c \in Callers |-> NoResult]

ApiOthers ==
    <<diffVars, engineVars, hdrVars, batchVars, uncleVars, finVars,
      customVars, sealVars, posVars, potVars, calcVars, trustVars>>

\* a caller enters SubmitWork or SubmitHashrate: with no remote sealer the
\* call returns false; else it makes its answer channel and reaches the select
ApiEnter(c) ==
    /\ apiPc[c] = "idle"
    /\ \E method \in ApiMethods :
          /\ apiCall' = [apiCall EXCEPT ![c] = method]
          /\ IF remote = "nil"
             THEN /\ apiPc' = [apiPc EXCEPT ![c] = "returned"]
                  /\ apiResult' = [apiResult EXCEPT ![c] =
                                      [value |-> FALSE, via |-> "nil remote"]]
             ELSE /\ apiPc' = [apiPc EXCEPT ![c] = "select"]
                  /\ UNCHANGED apiResult
    /\ UNCHANGED <<remote, exitCh, sealerPc, apiReply, ApiOthers>>

\* case <-remote.exitCh: return false
ApiExitCase(c) ==
    /\ apiPc[c] = "select"
    /\ exitReady
    /\ apiPc' = [apiPc EXCEPT ![c] = "returned"]
    /\ apiResult' = [apiResult EXCEPT ![c] = [value |-> FALSE, via |-> "exit"]]
    /\ UNCHANGED <<remote, exitCh, sealerPc, apiCall, apiReply, ApiOthers>>

\* the send case of the select meets the sealer's receive: the message of
\* caller c passes to the sealer, and the caller goes on to wait for the
\* answer
SealerReceive(c) ==
    /\ sealerPc = "loop"
    /\ apiPc[c] = "select"
    /\ sealerPc' = "handling"
    /\ apiPc' = [apiPc EXCEPT ![c] = "wait"]
    /\ UNCHANGED <<remote, exitCh, apiCall, apiReply, apiResult, ApiOthers>>

\* the sealer processes the message it received and answers on the
\* message's channel: a verdict on errc for SubmitWork, a token on done for
\* SubmitHashrate; the channel has capacity 1, so the answer never blocks
SealerAnswer(c) ==
    /\ sealerPc = "handling"
    /\ apiPc[c] = "wait"
    /\ apiReply[c] = <<>>
    /\ \E verdict \in {ErrNil, errInvalidSealResult} :
          apiReply' = [apiReply EXCEPT ![c] =
                          << IF apiCall[c] = "SubmitWork" THEN verdict ELSE "done" >>]
    /\ sealerPc' = "loop"
    /\ UNCHANGED <<remote, exitCh, apiPc, apiCall, apiResult, ApiOthers>>

\* the engine shuts down: the sealer leaves its loop and closes exitCh
SealerExit ==
    /\ sealerPc = "loop"
    /\ sealerPc' = "exited"
    /\ exitCh' = "closed"
    /\ UNCHANGED <<remote, apiPc, apiCall, apiReply, apiResult, ApiOthers>>

\* err := <-errc; return err == nil, and <-done; return true
ApiReceive(c) ==
    /\ apiPc[c] = "wait"
    /\ apiReply[c] # <<>>
    /\ apiPc' = [apiPc EXCEPT ![c] = "returned"]
    /\ apiResult' = [apiResult EXCEPT ![c] =
                        [value |-> submitResult(apiCall[c], Head(apiReply[c])),
                         via |-> "answer"]]
    /\ apiReply' = [apiReply EXCEPT ![c] = Tail(@)]
    /\ UNCHANGED <<remote, exitCh, sealerPc, apiCall, ApiOthers>>

NextApi ==
    \/ \E c \in Callers : ApiEnter(c)
    \/ \E c \in Callers : ApiExitCase(c)
    \/ \E c \in Callers : SealerReceive(c)
    \/ \E c \in Callers : SealerAnswer(c)
    \/ SealerExit
    \/ \E c \in Callers : ApiReceive(c)

SpecApi == InitApi /\ [][NextApi]_vars

\* the steps of the goroutine of caller c once it is inside its call; a
\* select with a ready case takes one
ApiStep(c) == ApiExitCase(c) \/ ApiReceive(c)

\* the steps the sealer takes in its loop while the engine keeps running
SealerStep == \E c \in Callers : SealerReceive(c) \/ SealerAnswer(c)

\* The Go scheduler runs every goroutine that can take a step.  Nothing
\* obliges a miner to call the API or the engine to shut down.
FairApi ==
    /\ \A c \in Callers : WF_vars(ApiStep(c))
    /\ WF_vars(SealerStep)

\* Specification SpecApiLive: SpecApi under the scheduler's fairness
SpecApiLive == SpecApi /\ FairApi

\* the call of caller c is blocked inside SubmitWork or SubmitHashrate
apiBlocked(c) == apiPc[c] \in {"select", "wait"}

=============================================================================
